---- MODULE Spec2Model ----
(***************************************************************************)
(* Triangulation<2,2>: hierarchical quadrilateral mesh with isotropic      *)
(* refinement and coarsening, flag regularization and mesh smoothing, and  *)
(* the refinement signals.                                                 *)
(*                                                                         *)
(* A cell is <<level, x, y>>: the cell of the given level whose lower left *)
(* corner is (x, y) on the lattice of that level.  The coarse mesh is the  *)
(* n x n grid of GridGenerator::subdivided_hyper_cube.  A vertex position  *)
(* is a pair of integers in units of the finest lattice.                   *)
(*                                                                         *)
(* Refinement and coarsening are explored on the coarse mesh of            *)
(* Repetitions x Repetitions cells; on the coarse mesh of                  *)
(* WideRepetitions x WideRepetitions cells the flags and                   *)
(* prepare_coarsening_and_refinement are explored.                         *)
(*                                                                         *)
(* LifeSpec follows one triangulation object through create, clear, load,  *)
(* copy and set_mesh_smoothing on the unit square of                       *)
(* GridGenerator::hyper_cube, with subscriptions and signals;              *)
(* MaterialSpec adds material ids set through cell iterators;              *)
(* ManifoldSpec attaches manifold objects and lets refined cells have      *)
(* distorted children; UserDataSpec keeps user pointers and user indices.  *)
(* HistorySpec sets the flags of the unit square and its refinements with  *)
(* load_refine_flags and load_coarsen_flags; RoundTripSpec refines one     *)
(* cell and coarsens it again, with the counts kept before the refinement. *)
(***************************************************************************)
EXTENDS Integers, Sequences, FiniteSets

(* ------------------------------ bounds --------------------------------- *)
Repetitions == 2
WideRepetitions == 3
MaxLevel == 2
MaxCycles == 3
MaxFlagCycles == 2
MaxRefineFlags == 1
MaxWideRefineFlags == 3
MaxTimes == 2
MaxSubscriptions == 1
MaxMaterialChanges == 1
MaxUserData == 2
MaxLoadedFlags == 1

(* ---------------- MeshSmoothing (bit flags of the enum) ---------------- *)
none == 0
limit_level_difference_at_vertices == 1
eliminate_unrefined_islands == 2
coarsest_level_1 == 8
eliminate_refined_inner_islands == 256
eliminate_refined_boundary_islands == 512
do_not_produce_unrefined_islands == 1024
smoothing_on_coarsening ==
  eliminate_refined_inner_islands + eliminate_refined_boundary_islands
    + do_not_produce_unrefined_islands

\* smoothing settings a Triangulation is constructed with
SmoothingSettings ==
  { none, limit_level_difference_at_vertices, eliminate_unrefined_islands,
    coarsest_level_1, smoothing_on_coarsening }

HasBit(mask, flag) == (mask \div flag) % 2 = 1
\* the settings given to set_mesh_smoothing
LifeSmoothingSettings == { none, eliminate_unrefined_islands }

(* ------------------------------ geometry ------------------------------- *)
dim == 2
children_per_cell == 4
faces_per_cell == 4
vertices_per_cell == 4

Pow2(n) == 2 ^ n
Level(c) == c[1]
\* cells per direction on level l of the widest coarse mesh
Extent(l) == WideRepetitions * Pow2(l)
OnLattice(c) == c[2] >= 0 /\ c[2] < Extent(c[1]) /\ c[3] >= 0 /\ c[3] < Extent(c[1])

child(c, i) == << c[1] + 1, 2 * c[2] + (i % 2), 2 * c[3] + (i \div 2) >>
Children(c) == { child(c, i) : i \in 0 .. (children_per_cell - 1) }
parent(c) == << c[1] - 1, c[2] \div 2, c[3] \div 2 >>

\* the cells of subdivided_hyper_cube(tria, n)
CoarseCells(n) == { << 0, x, y >> : x \in 0 .. (n - 1), y \in 0 .. (n - 1) }
\* the cell of the coarse level that covers c
coarse_ancestor(c) == << 0, c[2] \div Pow2(c[1]), c[3] \div Pow2(c[1]) >>
LevelCells(l) == { << l, x, y >> : x \in 0 .. (Extent(l) - 1), y \in 0 .. (Extent(l) - 1) }
AllCells == UNION { LevelCells(l) : l \in 0 .. MaxLevel }

\* faces 0,1: left, right (normal in x); faces 2,3: bottom, top (normal in y)
FaceOffset(f) ==
  CASE f = 0 -> << -1, 0 >>
    [] f = 1 -> << 1, 0 >>
    [] f = 2 -> << 0, -1 >>
    [] OTHER -> << 0, 1 >>
Faces == 0 .. (faces_per_cell - 1)
Across(c, f) == << c[1], c[2] + FaceOffset(f)[1], c[3] + FaceOffset(f)[2] >>

\* position of vertex v (0..3, lexicographic) of cell c on the finest lattice
Scale(l) == Pow2(MaxLevel - l)
vertex(c, v) == << (c[2] + (v % 2)) * Scale(c[1]), (c[3] + (v \div 2)) * Scale(c[1]) >>
CellVertices(c) == { vertex(c, v) : v \in 0 .. (vertices_per_cell - 1) }
center(c) == << (2 * c[2] + 1) * Scale(c[1] + 1), (2 * c[3] + 1) * Scale(c[1] + 1) >>
\* midpoint of face f of cell c
face_center(c, f) ==
  CASE f = 0 -> << c[2] * Scale(c[1]), (2 * c[3] + 1) * Scale(c[1] + 1) >>
    [] f = 1 -> << (c[2] + 1) * Scale(c[1]), (2 * c[3] + 1) * Scale(c[1] + 1) >>
    [] f = 2 -> << (2 * c[2] + 1) * Scale(c[1] + 1), c[3] * Scale(c[1]) >>
    [] OTHER -> << (2 * c[2] + 1) * Scale(c[1] + 1), (c[3] + 1) * Scale(c[1]) >>

\* iteration order of cells: by level, then row by row
CellBefore(a, b) ==
  \/ a[1] < b[1]
  \/ a[1] = b[1] /\ a[3] < b[3]
  \/ a[1] = b[1] /\ a[3] = b[3] /\ a[2] < b[2]

LevelOrder(l) ==
  [ i \in 1 .. (Extent(l) * Extent(l)) |->
      << l, (i - 1) % Extent(l), (i - 1) \div Extent(l) >> ]

RECURSIVE OrderUpTo(_)
OrderUpTo(l) == IF l = 0 THEN LevelOrder(0) ELSE OrderUpTo(l - 1) \o LevelOrder(l)

\* all cells the bounded mesh can hold, in iteration order
CellOrder == OrderUpTo(MaxLevel)

\* all lattice points of the finest level, row by row
PosOrder ==
  [ i \in 1 .. ((Extent(MaxLevel) + 1) * (Extent(MaxLevel) + 1)) |->
      << (i - 1) % (Extent(MaxLevel) + 1), (i - 1) \div (Extent(MaxLevel) + 1) >> ]

\* the positions of S row by row
SortPos(S) ==
  LET member(p) == p \in S
  IN SelectSeq(PosOrder, member)

\* a loop over the cells (or positions) lo .. hi of a sequence, each visit
\* updating the state st; the first half is completed (its result compared,
\* hence computed) before the second half starts
RECURSIVE sweep(_, _, _, _, _)
sweep(visit(_, _), cells, lo, hi, st) ==
  IF lo > hi THEN st
  ELSE IF lo = hi THEN visit(cells[lo], st)
  ELSE LET mid == (lo + hi) \div 2
           done == sweep(visit, cells, lo, mid, st)
       IN IF done = done THEN sweep(visit, cells, mid + 1, hi, done) ELSE done

\* the same sequence, last element first
backward(cells) == [ i \in 1 .. Len(cells) |-> cells[Len(cells) + 1 - i] ]

(* ------------------------------- lines --------------------------------- *)
\* numbers::flat_manifold_id, static_cast<types::manifold_id>(-1): the
\* manifold id of objects without manifold
flat_manifold_id == -1

\* numbers::internal_face_boundary_id, the boundary id of interior faces
internal_face_boundary_id == 255

\* a line is the pair of its end points; face f of cell c is the line
face_line(c, f) ==
  CASE f = 0 -> << vertex(c, 0), vertex(c, 2) >>
    [] f = 1 -> << vertex(c, 1), vertex(c, 3) >>
    [] f = 2 -> << vertex(c, 0), vertex(c, 1) >>
    [] OTHER -> << vertex(c, 2), vertex(c, 3) >>
CellLines(c) == { face_line(c, f) : f \in Faces }
LinesOf(cells) == UNION { CellLines(c) : c \in cells }

is_vertical(l) == l[1][1] = l[2][1]
line_length(l) == (l[2][1] - l[1][1]) + (l[2][2] - l[1][2])
\* the line of twice the length one of whose two children is l
parent_line(l) ==
  LET len == 2 * line_length(l)
  IN IF is_vertical(l)
     THEN LET y == (l[1][2] \div len) * len
          IN << << l[1][1], y >>, << l[1][1], y + len >> >>
     ELSE LET x == (l[1][1] \div len) * len
          IN << << x, l[1][2] >>, << x + len, l[1][2] >> >>

\* the face number of the side of the square [0, width]^2 the line lies on,
\* or -1 for a line in the interior
boundary_side(l, width) ==
  IF is_vertical(l)
  THEN (IF l[1][1] = 0 THEN 0 ELSE IF l[1][1] = width THEN 1 ELSE -1)
  ELSE (IF l[1][2] = 0 THEN 2 ELSE IF l[1][2] = width THEN 3 ELSE -1)

\* boundary ids that are the face number on the boundary in any case
coarse_boundary_ids_colorized(n, colorize) ==
  [ l \in LinesOf(CoarseCells(n)) |->
      LET side == boundary_side(l, n * Scale(0))
      IN IF side = -1 THEN internal_face_boundary_id ELSE side ]

\* boundary ids of the lines of the coarse mesh of n x n cells: zero, or the
\* face number if colorized, on the boundary; the reserved value inside
coarse_boundary_ids(n, colorize) ==
  [ l \in LinesOf(CoarseCells(n)) |->
      LET side == boundary_side(l, n * Scale(0))
      IN IF side = -1 THEN internal_face_boundary_id
         ELSE IF colorize THEN side ELSE 0 ]


(* ------------------------------- state --------------------------------- *)
VARIABLES
  smooth_grid,     \* MeshSmoothing given to the constructor
  used,            \* cells whose used flag is set
  has_children,    \* cells whose children index is set
  refine_flag,     \* cells carrying the refine flag
  coarsen_flag,    \* cells carrying the coarsen flag
  material_id,     \* material id of every used cell
  manifold_id,     \* manifold id of every used cell
  levels_size,     \* levels.size(): the levels the storage has
  vertices,        \* vertex array (positions)
  vertices_used,   \* used flag of every vertex slot
  number_cache,    \* cached counts
  boundary_id,     \* boundary id of every used line
  material_id_set, \* cells whose material id the user has set
  user_data,       \* user pointers or user indices of the cells, and which kind
  check_for_distorted_cells, \* constructor argument
  subscriptions,   \* subscriptions to the triangulation (Subscriptor)
  manifold,        \* manifold objects that are not flat, by manifold id
  connections,     \* observers connected to the signals of the triangulation
  source_triggered, \* signals triggered on another triangulation, running call
  exception,       \* what the call that has returned raised, else "none"
  distorted_children, \* cells refined in the running call with a distorted child
  new_points,      \* the points the manifolds returned in the running call, in order
  noted,           \* what the program read from the triangulation and kept
  triggered,       \* names of the signals triggered, running call
  pc,              \* position inside execute_coarsening_and_refinement
  caller,          \* who entered prepare_coarsening_and_refinement
  times,           \* argument of the running refine_global, else 0
  times_left,      \* remaining cycles of refine_global
  cycles,          \* calls of execute_coarsening_and_refinement so far
  passes,          \* loop passes of the running prepare call
  flags_at_call,   \* flags when prepare / execute was entered
  flags_seen,      \* flags at the start of each pass of the running prepare
  mesh_at_call,    \* cells and vertices when execute was entered
  signal_log,      \* signals and the mesh an observer saw, running call
  phase_log        \* phases of the running execute call, in order

vars ==
  << smooth_grid, used, has_children, refine_flag, coarsen_flag, material_id, manifold_id,
     levels_size,
     vertices, vertices_used, number_cache, boundary_id, material_id_set, user_data,
     check_for_distorted_cells, subscriptions, manifold, connections, source_triggered,
     exception, distorted_children, new_points, noted, triggered, pc, caller, times, times_left, cycles,
     passes, flags_at_call, flags_seen, mesh_at_call, signal_log, phase_log >>

MeshVars ==
  << used, has_children, material_id, manifold_id, levels_size, vertices,
     vertices_used, number_cache, boundary_id >>
\* what the refinement functions never touch
\* what belongs to the object besides the mesh
AttachedVars == << connections, source_triggered >>
LifeVars ==
  << check_for_distorted_cells, subscriptions, material_id_set, user_data, manifold,
     AttachedVars >>
CallVars == << caller, times, passes, flags_at_call, flags_seen, mesh_at_call >>

active(c) == c \in used /\ c \notin has_children

\* the domain is what the cells of the coarse level cover
InDomain(c) == OnLattice(c) /\ coarse_ancestor(c) \in used
\* face f of c has no cell behind it
at_boundary(c, f) == ~ InDomain(Across(c, f))
ActiveCells == used \ has_children

Mesh ==
  [ used |-> used, has_children |-> has_children, material_id |-> material_id,
    manifold_id |-> manifold_id, levels_size |-> levels_size, vertices |-> vertices, vertices_used |-> vertices_used,
    number_cache |-> number_cache, boundary_id |-> boundary_id,
    smooth_grid |-> smooth_grid ]
Flags == [ r |-> refine_flag, c |-> coarsen_flag ]
NoMesh == [ used |-> {}, has_children |-> {}, material_id |-> << >>,
            manifold_id |-> << >>, levels_size |-> 0,
            vertices |-> << >>, vertices_used |-> << >>, number_cache |-> << >>,
            boundary_id |-> << >>, smooth_grid |-> 0 ]
NoFlags == [ r |-> {}, c |-> {} ]


(* ------------------------- neighbor relations -------------------------- *)
NoCell == << -1, 0, 0 >>

RECURSIVE used_ancestor(_)
used_ancestor(n) ==
  IF n \in used THEN n
  ELSE IF n[1] <= 0 THEN NoCell
  ELSE used_ancestor(parent(n))

\* cell->neighbor(f): the cell behind face f, on the level of c if there is
\* one (it may have children), else the coarser cell behind the face
neighbor(c, f) ==
  IF at_boundary(c, f) THEN NoCell ELSE used_ancestor(Across(c, f))

InnerFaces(c) == { f \in Faces : ~ at_boundary(c, f) }

\* children of a refined cell that lie on its face f
child_cell_on_face(c, f) ==
  { child(c, i) : i \in { j \in 0 .. (children_per_cell - 1) :
      CASE f = 0 -> j % 2 = 0
        [] f = 1 -> j % 2 = 1
        [] f = 2 -> j \div 2 = 0
        [] OTHER -> j \div 2 = 1 } }

\* all children active and flagged for coarsening
cell_will_be_coarsened(c, fl) ==
  /\ c \in has_children
  /\ \A ch \in Children(c) : active(ch) /\ ch \in fl.c

face_will_be_refined_by_neighbor(c, f, fl) ==
  LET n == neighbor(c, f)
  IN IF n = NoCell THEN FALSE
     ELSE IF n \in has_children THEN ~ cell_will_be_coarsened(n, fl)
     ELSE n \in fl.r /\ Level(n) = Level(c)

(* ------------- prepare_coarsening_and_refinement: the steps ------------ *)
\* STEP 0 is left out
clear_level_1_coarsen_flags_skipped(fl) == fl

\* STEP 0: with coarsest_level_1 no active cell of level 1 is coarsened
clear_level_1_coarsen_flags(fl) ==
  IF HasBit(smooth_grid, coarsest_level_1)
  THEN [ fl EXCEPT !.c = { c \in fl.c : ~ (active(c) /\ Level(c) = 1) } ]
  ELSE fl

\* STEP 1: do not coarsen a cell if most of its neighbors will be refined
do_not_produce_island_cell(c, fl) ==
  LET n_neighbors == Cardinality(InnerFaces(c))
      count == Cardinality({ f \in InnerFaces(c) : face_will_be_refined_by_neighbor(c, f, fl) })
  IN IF count = n_neighbors \/ (count >= n_neighbors - 1 /\ n_neighbors = faces_per_cell)
     THEN [ fl EXCEPT !.c = fl.c \ Children(c) ]
     ELSE fl

do_not_produce_unrefined_islands_sweep(cells, fl0) ==
  LET visit(c, fl) == IF cell_will_be_coarsened(c, fl)
                      THEN do_not_produce_island_cell(c, fl) ELSE fl
  IN sweep(visit, cells, 1, Len(cells), fl0)

\* STEP 2: eliminate refined islands in the interior and at the boundary
eliminate_refined_island_cell(c, fl) ==
  LET total_neighbors == Cardinality(InnerFaces(c))
      unrefined_neighbors ==
        Cardinality({ f \in InnerFaces(c) : ~ face_will_be_refined_by_neighbor(c, f, fl) })
  IN IF /\ unrefined_neighbors = total_neighbors
        /\ \/ unrefined_neighbors = faces_per_cell
              /\ HasBit(smooth_grid, eliminate_refined_inner_islands)
           \/ unrefined_neighbors < faces_per_cell
              /\ HasBit(smooth_grid, eliminate_refined_boundary_islands)
        /\ total_neighbors # 0
     THEN IF c \in has_children
          THEN [ r |-> fl.r \ Children(c), c |-> fl.c \cup Children(c) ]
          ELSE [ fl EXCEPT !.r = fl.r \ {c} ]
     ELSE fl

eliminate_refined_islands_sweep(cells, fl0) ==
  LET visit(c, fl) ==
        IF \/ c \in has_children /\ \A ch \in Children(c) : active(ch)
           \/ active(c) /\ c \in fl.r
        THEN eliminate_refined_island_cell(c, fl)
        ELSE fl
  IN sweep(visit, cells, 1, Len(cells), fl0)

\* STEP 3: limit the level difference of the cells at each vertex
Max(S) == CHOOSE m \in S : \A k \in S : k <= m

\* the lattice points of the finest level
AllPos == { << X, Y >> : X \in 0 .. Extent(MaxLevel), Y \in 0 .. Extent(MaxLevel) }

\* the cells of all levels that have the lattice point p as a vertex
AdjacentCells ==
  [ p \in AllPos |->
      UNION { { c \in { << l, (p[1] \div Scale(l)) - a, (p[2] \div Scale(l)) - b >> :
                           a \in 0 .. 1, b \in 0 .. 1 } : OnLattice(c) } :
              l \in { k \in 0 .. MaxLevel : p[1] % Scale(k) = 0 /\ p[2] % Scale(k) = 0 } } ]

\* a cell flagged for refinement counted two levels up
vertex_level_two_up(p, st, fl) ==
  Max({0} \cup { (IF c \in fl.r \/ c \in st.new THEN Level(c) + 2
                  ELSE IF c \notin fl.c THEN Level(c)
                  ELSE Level(c) - 1) :
                 c \in { d \in AdjacentCells[p] : active(d) } })

\* vertex_level[p] during the sweep: the highest level the active cells at p
\* will have, a cell flagged for refinement (before the sweep, fl.r, or by the
\* sweep, st.new) counted one level up and a cell flagged for coarsening
\* (before the sweep) one level down
vertex_level(p, st, fl) ==
  Max({0} \cup { (IF c \in fl.r \/ c \in st.new THEN Level(c) + 1
                  ELSE IF c \notin fl.c THEN Level(c)
                  ELSE Level(c) - 1) :
                 c \in { d \in AdjacentCells[p] : active(d) } })

\* a cell is flagged as soon as a vertex is one level above it
limit_level_cell_one_level_early(c, st, fl) ==
  LET highest == Max({ vertex_level(p, st, fl) : p \in CellVertices(c) })
      hit == highest >= Level(c) + 1
  IN [ r |-> IF hit THEN st.r \cup {c} ELSE st.r,
       c |-> IF hit THEN st.c \ {c} ELSE st.c,
       new |-> IF hit THEN st.new \cup {c} ELSE st.new ]

\* a vertex two levels above the cell is tolerated
limit_level_cell_tolerates_two_levels(c, st, fl) ==
  LET highest == Max({ vertex_level(p, st, fl) : p \in CellVertices(c) })
      hit == highest >= Level(c) + 1
      big == highest > Level(c) + 2
  IN [ r |-> IF big THEN st.r \cup {c} ELSE st.r,
       c |-> IF hit THEN st.c \ {c} ELSE st.c,
       new |-> IF big THEN st.new \cup {c} ELSE st.new ]

limit_level_cell(c, st, fl) ==
  LET highest == Max({ vertex_level(p, st, fl) : p \in CellVertices(c) })
      hit == highest >= Level(c) + 1
      big == highest > Level(c) + 1
  IN [ r |-> IF big THEN st.r \cup {c} ELSE st.r,
       c |-> IF hit THEN st.c \ {c} ELSE st.c,
       new |-> IF big THEN st.new \cup {c} ELSE st.new ]

\* a smoothing step that does nothing
limit_level_difference_skipped(cells, fl) == fl

\* the loop runs backward over the active cells
limit_level_difference(cells, fl) ==
  LET visit(c, st) == IF c \notin st.r THEN limit_level_cell(c, st, fl) ELSE st
      st == sweep(visit, backward(cells), 1, Len(cells),
                  [ r |-> fl.r, c |-> fl.c, new |-> {} ])
  IN [ r |-> st.r, c |-> st.c ]

\* STEP 4: eliminate unrefined islands
\* only a cell all of whose neighbors are refined is flagged
possibly_refine_true_island(c, fl) ==
  LET unrefined_neighbors ==
        Cardinality({ f \in InnerFaces(c) : ~ face_will_be_refined_by_neighbor(c, f, fl) })
  IN IF unrefined_neighbors = 0
     THEN [ r |-> fl.r \cup {c}, c |-> fl.c \ {c} ]
     ELSE fl

possibly_refine_unrefined_island(c, fl) ==
  LET refined_neighbors ==
        Cardinality({ f \in InnerFaces(c) : face_will_be_refined_by_neighbor(c, f, fl) })
      unrefined_neighbors ==
        Cardinality({ f \in InnerFaces(c) : ~ face_will_be_refined_by_neighbor(c, f, fl) })
  IN IF unrefined_neighbors < refined_neighbors
     THEN [ r |-> fl.r \cup {c}, c |-> fl.c \ {c} ]
     ELSE fl

eliminate_unrefined_islands_sweep(cells, fl0) ==
  LET visit(c, fl) == IF c \notin fl.r
                      THEN possibly_refine_unrefined_island(c, fl) ELSE fl
  IN sweep(visit, backward(cells), 1, Len(cells), fl0)

\* a regularization that leaves the coarser neighbors unflagged
regularize_cell_keeps_coarser_neighbors(c, fl) ==
  LET nbs == { n \in { neighbor(c, f) : f \in InnerFaces(c) } : active(n) }
  IN [ r |-> fl.r, c |-> fl.c \ nbs ]

\* STEP 6: regularization, no double refinement at a face.  A cell flagged
\* for refinement flags its coarser active neighbors and takes the coarsen
\* flag from all its active neighbors.
regularize_cell(c, fl) ==
  LET nbs == { n \in { neighbor(c, f) : f \in InnerFaces(c) } : active(n) }
  IN [ r |-> fl.r \cup { n \in nbs : Level(n) < Level(c) },
       c |-> fl.c \ nbs ]

\* the loop runs forward, the cells of the lowest level first
regularize_sweep_forward(cells, fl0) ==
  LET visit(c, fl) == IF c \in fl.r THEN regularize_cell(c, fl) ELSE fl
  IN sweep(visit, cells, 1, Len(cells), fl0)

\* the loop runs backward, the cells of the highest level first
regularize_sweep(cells, fl0) ==
  LET visit(c, fl) == IF c \in fl.r THEN regularize_cell(c, fl) ELSE fl
  IN sweep(visit, backward(cells), 1, Len(cells), fl0)

\* STEP 8: fix_coarsen_flags
\* may the children of c (user flagged in U) be deleted: no neighbor of a
\* child is refined or will be refined, unless it is coarsened as well
coarsening_allowed(c, U, r) ==
  \A f \in InnerFaces(c) : \A ch \in child_cell_on_face(c, f) :
    LET child_neighbor == Across(ch, f)
    IN child_neighbor \in used =>
         ~ \/ child_neighbor \in has_children /\ child_neighbor \notin U
           \/ child_neighbor \in r

\* the coarsen flags are left as they are
fix_coarsen_flags_unchecked(active_cells, fl0) == fl0

\* one flagged child is enough for all children to be flagged
fix_coarsen_flags_any_child(active_cells, fl0) ==
  LET c1 == { c \in fl0.c : Level(c) > 0 /\ c \notin fl0.r }
      U == { p \in has_children :
               /\ \A ch \in Children(p) : active(ch)
               /\ \E ch \in Children(p) : ch \in c1 }
  IN [ r |-> fl0.r,
       c |-> UNION { Children(p) : p \in { q \in U : coarsening_allowed(q, U, fl0.r) } } ]

\* the flags of a group that is only partly flagged are kept
fix_coarsen_flags_keeps_partial_groups(active_cells, fl0) ==
  [ r |-> fl0.r, c |-> { c \in fl0.c : Level(c) > 0 /\ c \notin fl0.r } ]

\* a refine flag does not take the coarsen flag from a cell
fix_coarsen_flags_despite_refine_flags(active_cells, fl0) ==
  LET fl1 == IF HasBit(smooth_grid, limit_level_difference_at_vertices)
             THEN limit_level_difference(active_cells, fl0) ELSE fl0
      c1 == { c \in fl1.c : Level(c) > 0 }
      U == { p \in has_children : \A ch \in Children(p) : active(ch) /\ ch \in c1 }
  IN [ r |-> fl1.r,
       c |-> UNION { Children(p) : p \in { q \in U : coarsening_allowed(q, U, fl1.r) } } ]

fix_coarsen_flags_of(active_cells, fl0) ==
  LET fl1 == IF HasBit(smooth_grid, limit_level_difference_at_vertices)
             THEN limit_level_difference(active_cells, fl0) ELSE fl0
      \* no coarsen flag on the coarsest level, none on a cell to be refined
      c1 == { c \in fl1.c : Level(c) > 0 /\ c \notin fl1.r }
      U == { p \in has_children : \A ch \in Children(p) : active(ch) /\ ch \in c1 }
  IN [ r |-> fl1.r,
       c |-> UNION { Children(p) : p \in { q \in U : coarsening_allowed(q, U, fl1.r) } } ]

is_active(c) == active(c)
is_refined(c) == c \in has_children
is_used(c) == c \in used

\* one pass of the loop of prepare_coarsening_and_refinement
prepare_pass(fl0) ==
  LET active_cells == SelectSeq(CellOrder, is_active)
      fl1 == IF HasBit(smooth_grid, do_not_produce_unrefined_islands)
             THEN do_not_produce_unrefined_islands_sweep(
                    SelectSeq(CellOrder, is_refined), fl0)
             ELSE fl0
      fl2 == IF HasBit(smooth_grid, eliminate_refined_inner_islands)
                \/ HasBit(smooth_grid, eliminate_refined_boundary_islands)
             THEN eliminate_refined_islands_sweep(SelectSeq(CellOrder, is_used), fl1)
             ELSE fl1
      fl3 == IF HasBit(smooth_grid, limit_level_difference_at_vertices)
             THEN limit_level_difference(active_cells, fl2) ELSE fl2
      fl4 == IF HasBit(smooth_grid, eliminate_unrefined_islands)
             THEN eliminate_unrefined_islands_sweep(active_cells, fl3)
             ELSE fl3
      fl6 == regularize_sweep(active_cells, fl4)
  IN fix_coarsen_flags_of(active_cells, fl6)

(* --------------------------- vertex storage ---------------------------- *)
UsedPositions(vs, vu) == { vs[i] : i \in { j \in 1 .. Len(vs) : vu[j] } }

\* the new vertex is put in front of the array: the others are renumbered
allocate_vertex_in_front(p, st) ==
  [ vertices |-> << p >> \o st.vertices,
    vertices_used |-> << TRUE >> \o st.vertices_used ]

\* the first unused slot takes the new vertex; the array grows if none is free
allocate_vertex(p, st) ==
  LET free == { i \in 1 .. Len(st.vertices) : ~ st.vertices_used[i] }
  IN IF free = {}
     THEN [ vertices |-> Append(st.vertices, p),
            vertices_used |-> Append(st.vertices_used, TRUE) ]
     ELSE LET i == CHOOSE j \in free : \A k \in free : j <= k
          IN [ vertices |-> [ st.vertices EXCEPT ![i] = p ],
               vertices_used |-> [ st.vertices_used EXCEPT ![i] = TRUE ] ]

allocate_vertices(vs, vu, new) ==
  sweep(allocate_vertex, new, 1, Len(new), [ vertices |-> vs, vertices_used |-> vu ])

(* ----------------------------- number cache ---------------------------- *)
\* every used cell is counted as active
compute_number_cache_all_active(u, hc) ==
  LET n_levels == IF u = {} THEN 0 ELSE 1 + Max({ Level(c) : c \in u })
  IN [ n_levels |-> n_levels,
       n_cells |-> Cardinality(u),
       n_active_cells |-> Cardinality(u),
       n_cells_level |-> [ l \in 1 .. n_levels |->
                             Cardinality({ c \in u : Level(c) = l - 1 }) ],
       n_active_cells_level |-> [ l \in 1 .. n_levels |->
                             Cardinality({ c \in u : Level(c) = l - 1 }) ] ]

compute_number_cache(u, hc) ==
  LET n_levels == IF u = {} THEN 0 ELSE 1 + Max({ Level(c) : c \in u })
  IN [ n_levels |-> n_levels,
       n_cells |-> Cardinality(u),
       n_active_cells |-> Cardinality(u \ hc),
       n_cells_level |-> [ l \in 1 .. n_levels |->
                             Cardinality({ c \in u : Level(c) = l - 1 }) ],
       n_active_cells_level |-> [ l \in 1 .. n_levels |->
                             Cardinality({ c \in u \ hc : Level(c) = l - 1 }) ] ]

(* ------------------------------ user data ----------------------------- *)
\* no user data is in use: every cell has the null pointer, and pointers and
\* indices are both allowed
NoUserData == [ type |-> "data_unknown", data |-> << >> ]

\* the user data of the cells u
user_data_on(ud, u) ==
  [ type |-> ud.type, data |-> [ c \in DOMAIN ud.data \cap u |-> ud.data[c] ] ]

(* ------------------------------- signals ------------------------------- *)
\* a signal without argument, as an entry of the list of triggered signals
signal(name) == << name, NoCell >>

\* the signal alone: nothing is connected to it
signal_without_any_change(name) == << signal(name) >>

\* signals.create, signals.post_refinement and signals.clear are connected to
\* signals.any_change: triggering one of them triggers any_change as well
signal_with_any_change(name) == << signal(name), signal("any_change") >>

\* a signal triggered once for each cell of S, in iteration order
cell_signals(name, S) ==
  LET member(c) == c \in S
      cells == SelectSeq(CellOrder, member)
  IN [ i \in 1 .. Len(cells) |-> << name, cells[i] >> ]

(* ------------------------------ operations ----------------------------- *)
\* the cells, lines and vertices of a triangulation without content
EmptyMesh ==
  [ used |-> {}, has_children |-> {}, material_id |-> << >>,
    manifold_id |-> << >>, levels_size |-> 0, vertices |-> << >>,
    vertices_used |-> << >>, number_cache |-> compute_number_cache({}, {}),
    boundary_id |-> << >> ]

\* the triangulation stores the cells, lines and vertices of m
install(m) ==
  /\ used' = m.used
  /\ has_children' = m.has_children
  /\ material_id' = m.material_id
  /\ manifold_id' = m.manifold_id
  /\ levels_size' = m.levels_size
  /\ vertices' = m.vertices
  /\ vertices_used' = m.vertices_used
  /\ number_cache' = m.number_cache
  /\ boundary_id' = m.boundary_id

\* vertices.size() == 0 && levels.size() == 0
is_empty == Len(vertices) = 0 /\ levels_size = 0

\* the functions work on a triangulation with content as well
triangulation_need_not_be_empty == TRUE

\* what create_triangulation, copy_triangulation and set_mesh_smoothing
\* require: ExcTriangulationNotEmpty otherwise
triangulation_must_be_empty == is_empty

\* a triangulation that was just constructed and that nobody uses yet
Constructed ==
  /\ used = {}
  /\ has_children = {}
  /\ refine_flag = {}
  /\ coarsen_flag = {}
  /\ material_id = << >>
  /\ manifold_id = << >>
  /\ levels_size = 0
  /\ vertices = << >>
  /\ vertices_used = << >>
  /\ number_cache = compute_number_cache({}, {})
  /\ boundary_id = << >>
  /\ material_id_set = {}
  /\ user_data = NoUserData
  /\ subscriptions = 0
  /\ manifold = << >>
  /\ connections = { "observer" }
  /\ source_triggered = << >>
  /\ exception = "none"
  /\ distorted_children = {}
  /\ new_points = << >>
  /\ noted = << >>
  /\ triggered = << >>
  /\ pc = "empty"
  /\ caller = "none"
  /\ times = 0
  /\ times_left = 0
  /\ cycles = 0
  /\ passes = 0
  /\ flags_at_call = NoFlags
  /\ flags_seen = {}
  /\ mesh_at_call = NoMesh
  /\ signal_log = << >>
  /\ phase_log = << >>

\* Triangulation(smooth_grid): an empty triangulation
Init ==
  /\ smooth_grid \in SmoothingSettings
  /\ check_for_distorted_cells = FALSE
  /\ Constructed

\* material id given to the coarse cell c by the CellData of the generator
CoarseMaterial(c) == (c[2] + c[3]) % 2

\* the coarse mesh of n x n cells
coarse_mesh(n, colorize) ==
  LET vs == SortPos(UNION { CellVertices(c) : c \in CoarseCells(n) })
  IN [ used |-> CoarseCells(n),
       has_children |-> {},
       material_id |-> [ c \in CoarseCells(n) |-> CoarseMaterial(c) ],
       manifold_id |-> [ c \in CoarseCells(n) |-> flat_manifold_id ],
       levels_size |-> 1,
       vertices |-> vs,
       vertices_used |-> [ i \in 1 .. Len(vs) |-> TRUE ],
       number_cache |-> compute_number_cache(CoarseCells(n), {}),
       boundary_id |-> coarse_boundary_ids(n, colorize) ]

\* a function called by the user returns, having raised exc or nothing
returns(name, exc) ==
  /\ pc' = "returned"
  /\ caller' = name
  /\ exception' = exc
  /\ mesh_at_call' = Mesh
  /\ flags_at_call' = Flags
  /\ UNCHANGED << times, times_left, cycles, passes, flags_seen, phase_log >>

\* Triangulation::create_triangulation with the vertices and cells of the
\* n x n mesh: only on an empty triangulation; triggers the create signal
create_coarse_mesh(n, colorize) ==
  /\ UNCHANGED << smooth_grid, manifold, AttachedVars, distorted_children, new_points, noted, check_for_distorted_cells, subscriptions,
                  material_id_set, user_data, refine_flag, coarsen_flag >>
  /\ IF triangulation_must_be_empty
     THEN /\ install(coarse_mesh(n, colorize))
          /\ signal_log' = << << "create", Mesh' >> >>
          /\ triggered' = signal_with_any_change("create")
          /\ returns("create_triangulation", "none")
     ELSE /\ UNCHANGED << MeshVars, signal_log, triggered >>
          /\ returns("create_triangulation", "ExcTriangulationNotEmpty")

\* GridGenerator::subdivided_hyper_cube on the newly constructed triangulation
create_triangulation(n) ==
  /\ pc = "empty"
  /\ create_coarse_mesh(n, FALSE)

UserTurn == pc = "idle" /\ times_left = 0

\* the coarse mesh is one on which refinement and coarsening are explored
ExploredInFull == Cardinality({ c \in used : Level(c) = 0 }) <= Repetitions * Repetitions


\* cell->set_refine_flag()
set_refine_flag(c) ==
  /\ UserTurn
  /\ active(c)
  /\ c \notin refine_flag
  /\ c \notin coarsen_flag
  /\ Level(c) < MaxLevel
  /\ Cardinality(refine_flag) <
       (IF ExploredInFull THEN MaxRefineFlags ELSE MaxWideRefineFlags)
  /\ cycles < MaxFlagCycles
  /\ refine_flag' = refine_flag \cup {c}
  /\ UNCHANGED << smooth_grid, LifeVars, exception, distorted_children, new_points, noted, coarsen_flag, pc, times_left, cycles, signal_log, triggered,
                  phase_log, CallVars, MeshVars >>

\* the cells a cell is coarsened together with
SiblingGroup(c) ==
  IF Level(c) = 0 THEN { d \in used : Level(d) = 0 } ELSE Children(parent(c))

\* cell->set_coarsen_flag(); between two calls of execute the user flags
\* cells of one sibling group, in iteration order
set_coarsen_flag(c) ==
  /\ UserTurn
  /\ active(c)
  /\ c \notin coarsen_flag
  /\ c \notin refine_flag
  /\ cycles < MaxFlagCycles
  /\ coarsen_flag \subseteq SiblingGroup(c)
  /\ \A d \in SiblingGroup(c) : (active(d) /\ CellBefore(d, c)) => d \in coarsen_flag
  /\ coarsen_flag' = coarsen_flag \cup {c}
  /\ UNCHANGED << smooth_grid, LifeVars, exception, distorted_children, new_points, noted, refine_flag, pc, times_left, cycles, signal_log, triggered,
                  phase_log, CallVars, MeshVars >>

\* execute_coarsening_and_refinement is entered with the flags fl
begin_execute(fl) ==
  /\ ExploredInFull
  /\ cycles < MaxCycles
  /\ cycles' = cycles + 1
  /\ pc' = "prepare"
  /\ caller' = "execute"
  /\ passes' = 0
  /\ flags_at_call' = fl
  /\ flags_seen' = {}
  /\ mesh_at_call' = Mesh
  /\ phase_log' = << >>

execute_coarsening_and_refinement ==
  /\ UserTurn
  /\ begin_execute(Flags)
  /\ signal_log' = << >>
  /\ triggered' = << >>
  /\ UNCHANGED << smooth_grid, LifeVars, exception, distorted_children, new_points, noted, refine_flag, coarsen_flag, times, times_left, MeshVars >>

\* prepare_coarsening_and_refinement called by the user
prepare_coarsening_and_refinement ==
  /\ UserTurn
  /\ pc' = "prepare"
  /\ caller' = "user"
  /\ passes' = 0
  /\ flags_at_call' = Flags
  /\ flags_seen' = {}
  /\ UNCHANGED << smooth_grid, LifeVars, exception, distorted_children, new_points, noted, refine_flag, coarsen_flag, times, times_left, cycles,
                  mesh_at_call, signal_log, triggered, phase_log, MeshVars >>

\* a loop that does not notice that the flags are stable
prepare_loop_without_exit ==
  /\ pc = "prepare"
  /\ LET fl0 == IF passes = 0 THEN clear_level_1_coarsen_flags(Flags) ELSE Flags
         fl == prepare_pass(fl0)
     IN /\ refine_flag' = fl.r
        /\ coarsen_flag' = fl.c
        /\ passes' = passes + 1
        /\ flags_seen' = flags_seen \cup { Flags }
  /\ UNCHANGED << smooth_grid, LifeVars, exception, distorted_children, new_points, noted, pc, phase_log, caller, times, times_left, cycles,
                  flags_at_call, mesh_at_call, signal_log, triggered, MeshVars >>

\* one pass of the loop of prepare_coarsening_and_refinement; the loop ends
\* after the pass that changed no flag
prepare_loop ==
  /\ pc = "prepare"
  /\ LET fl0 == IF passes = 0 THEN clear_level_1_coarsen_flags(Flags) ELSE Flags
         fl == prepare_pass(fl0)
     IN /\ refine_flag' = fl.r
        /\ coarsen_flag' = fl.c
        /\ passes' = passes + 1
        /\ flags_seen' = flags_seen \cup { Flags }
        /\ IF fl = Flags
           THEN /\ pc' = IF caller = "execute" THEN "pre_refinement" ELSE "returned"
                /\ phase_log' = IF caller = "execute"
                                THEN Append(phase_log, "prepare") ELSE phase_log
           ELSE UNCHANGED << pc, phase_log >>
  /\ UNCHANGED << smooth_grid, LifeVars, exception, distorted_children, new_points, noted, caller, times, times_left, cycles, flags_at_call,
                  mesh_at_call, signal_log, triggered, MeshVars >>

\* the signal is not triggered
pre_refinement_not_triggered ==
  /\ pc = "pre_refinement"
  /\ phase_log' = Append(phase_log, "pre_refinement")
  /\ pc' = "execute_coarsening"
  /\ UNCHANGED << smooth_grid, LifeVars, exception, distorted_children, new_points, noted, refine_flag, coarsen_flag, times_left, cycles,
                  signal_log, triggered, CallVars, MeshVars >>

\* signals.pre_refinement()
pre_refinement ==
  /\ pc = "pre_refinement"
  /\ signal_log' = Append(signal_log, << "pre_refinement", Mesh >>)
  /\ triggered' = Append(triggered, signal("pre_refinement"))
  /\ phase_log' = Append(phase_log, "pre_refinement")
  /\ pc' = "execute_coarsening"
  /\ UNCHANGED << smooth_grid, LifeVars, exception, distorted_children, new_points, noted, refine_flag, coarsen_flag, times_left, cycles,
                  CallVars, MeshVars >>

\* the last child of each cell stays
children_to_delete_but_last(D) ==
  UNION { Children(p) \ { child(p, children_per_cell - 1) } : p \in D }

\* the cells that go when the cells of D are coarsened: all their children
children_to_delete(D) == UNION { Children(p) : p \in D }

\* execute_coarsening: delete the children of every cell all of whose
\* children are flagged for coarsening
execute_coarsening ==
  /\ pc = "execute_coarsening"
  /\ LET D == { p \in has_children : cell_will_be_coarsened(p, Flags) }
         gone == children_to_delete(D)
         hc == has_children \ D
         \* the center of a coarsened cell goes, and the midpoint of each of
         \* its faces unless the cell behind the face stays refined
         dead == { center(p) : p \in D } \cup
                 UNION { { face_center(p, f) :
                             f \in { g \in Faces : at_boundary(p, g)
                                                     \/ Across(p, g) \notin hc } } :
                         p \in D }
     IN /\ used' = used \ gone
        /\ has_children' = hc
        /\ coarsen_flag' = coarsen_flag \ gone
        /\ refine_flag' = refine_flag \ gone
        /\ material_id' = [ c \in used \ gone |-> material_id[c] ]
        /\ manifold_id' = [ c \in used \ gone |-> manifold_id[c] ]
        /\ vertices_used' = [ i \in 1 .. Len(vertices) |->
                                vertices_used[i] /\ vertices[i] \notin dead ]
        /\ boundary_id' = [ l \in LinesOf(used \ gone) |-> boundary_id[l] ]
        /\ material_id_set' = material_id_set \ gone
        /\ user_data' = user_data_on(user_data, used \ gone)
        /\ triggered' = triggered \o cell_signals("pre_coarsening_on_cell", D)
  /\ phase_log' = Append(phase_log, "execute_coarsening")
  /\ pc' = "execute_refinement"
  /\ UNCHANGED << smooth_grid, manifold, AttachedVars, distorted_children, new_points, noted, check_for_distorted_cells, subscriptions, exception,
                  vertices, levels_size, number_cache, times_left, cycles,
                  signal_log, CallVars >>

\* only the cells of the coarsest level are refined
cells_to_refine_on_coarsest_level ==
  { c \in ActiveCells : c \in refine_flag /\ Level(c) = 0 }

\* the cells execute_refinement refines
cells_to_refine == { c \in ActiveCells : c \in refine_flag }

\* the last child of each cell is not created
create_children_but_last(u, R) ==
  u \cup UNION { Children(c) \ { child(c, children_per_cell - 1) } : c \in R }

\* the used cells once every cell of R has got its children
create_children(u, R) == u \cup UNION { Children(c) : c \in R }

\* every new cell gets material id 0
no_material_ids_for_children(mat, u) ==
  [ c \in u |-> IF c \in DOMAIN mat THEN mat[c] ELSE 0 ]

\* every new cell gets the material id of its parent
inherit_material_ids(mat, u) ==
  [ c \in u |-> IF c \in DOMAIN mat THEN mat[c] ELSE mat[parent(c)] ]

\* the storage has the levels in use and no more
levels_in_use(size, u) == 1 + Max({ Level(c) : c \in u })

\* a level is added to the storage when cells of a new level are created;
\* no level is ever removed
levels_needed(size, u) ==
  LET highest == 1 + Max({ Level(c) : c \in u })
  IN IF size < highest THEN highest ELSE size

\* every new cell gets the manifold id of its parent
inherit_manifold_ids(man, u) ==
  [ c \in u |-> IF c \in DOMAIN man THEN man[c] ELSE man[parent(c)] ]

\* every new line gets the reserved value
no_boundary_ids_for_children(bid, u) ==
  [ l \in LinesOf(u) |->
      IF l \in DOMAIN bid THEN bid[l] ELSE internal_face_boundary_id ]

\* every new line that is the child of a line gets the boundary id of that
\* line; the new lines in the interior of a refined cell get the reserved value
inherit_boundary_ids(bid, u) ==
  [ l \in LinesOf(u) |->
      IF l \in DOMAIN bid THEN bid[l]
      ELSE IF parent_line(l) \in DOMAIN bid THEN bid[parent_line(l)]
      ELSE internal_face_boundary_id ]

\* Triangulation::get_manifold(number): the flat manifold unless an object
\* is stored for the number
get_manifold(number) ==
  IF number \in DOMAIN manifold THEN manifold[number] ELSE "FlatManifold"

\* the cells whose new vertices are placed by a manifold object of the user:
\* their children may be distorted; the children of a square whose manifold
\* is flat are squares
may_get_distorted_children(R) ==
  { c \in R : get_manifold(manifold_id[c]) # "FlatManifold" }

\* the list is filled whatever the constructor argument
cells_with_distorted_children_unchecked(check, distorted) == distorted

\* the list execute_refinement returns: filled only if
\* check_for_distorted_cells was given to the constructor
cells_with_distorted_children(check, distorted) ==
  IF check THEN distorted ELSE {}

\* the centers come first
new_vertex_order_centers_first(R, old) ==
  SortPos({ center(c) : c \in R })
    \o SortPos({ face_center(c, f) : c \in R, f \in Faces } \ old)

\* the new vertices in the order they are created when the cells R are
\* refined: the midpoints of the lines that have none yet, then the centers
\* of the cells
new_vertex_order(R, old) ==
  SortPos({ face_center(c, f) : c \in R, f \in Faces } \ old)
    \o SortPos({ center(c) : c \in R })

\* the manifold object is always the flat one
manifold_of_object_always_flat(c) == "FlatManifold"

\* the manifold object asked for the new point of the cell c, or of a line
\* of c: a line carries the manifold id of the cell it bounds
manifold_of_object(c) == get_manifold(manifold_id[c])

\* the new point p of a line or a cell of R: the object that is split, the
\* manifold object that returns the point, the points it is given (the end
\* points of the line; the vertices of the cell and the midpoints of its
\* lines) and the vertices that exist at this moment
new_point(p, R, existing) ==
  IF p \in { center(c) : c \in R }
  THEN LET c == CHOOSE d \in R : center(d) = p
       IN [ object |-> << "quad", c >>,
            manifold_object |-> manifold_of_object(c),
            point |-> p,
            surrounding_points |-> CellVertices(c) \cup { face_center(c, f) : f \in Faces },
            existing |-> existing ]
  ELSE LET has_line(d) == d \in R /\ \E f \in Faces : face_center(d, f) = p
           c == SelectSeq(CellOrder, has_line)[1]
           l == face_line(c, CHOOSE f \in Faces : face_center(c, f) = p)
       IN [ object |-> << "line", l >>,
            manifold_object |-> manifold_of_object(c),
            point |-> p,
            surrounding_points |-> { l[1], l[2] },
            existing |-> existing ]

\* the points the manifold objects return, one after the other
new_vertices(R, old) ==
  LET order == new_vertex_order(R, old)
  IN << >> \o [ i \in 1 .. Len(order) |->
                   new_point(order[i], R, old \cup { order[j] : j \in 1 .. (i - 1) }) ]

\* execute_refinement: every active cell with the refine flag gets its
\* children; new vertices on the faces first, then in the cell interiors
execute_refinement ==
  /\ pc = "execute_refinement"
  /\ LET R == cells_to_refine
         old == UsedPositions(vertices, vertices_used)
         asked == new_vertices(R, old)
         alloc == allocate_vertices(vertices, vertices_used,
                    << >> \o [ i \in 1 .. Len(asked) |-> asked[i].point ])
     IN /\ new_points' = asked
        /\ used' = create_children(used, R)
        /\ has_children' = has_children \cup R
        /\ refine_flag' = refine_flag \ R
        /\ material_id' = inherit_material_ids(material_id, used')
        /\ manifold_id' = inherit_manifold_ids(manifold_id, used')
        /\ levels_size' = levels_needed(levels_size, used')
        /\ vertices' = alloc.vertices
        /\ vertices_used' = alloc.vertices_used
        /\ boundary_id' = inherit_boundary_ids(boundary_id, used')
        /\ distorted_children' \in SUBSET may_get_distorted_children(R)
        /\ triggered' = triggered \o cell_signals("post_refinement_on_cell", R)
  /\ phase_log' = Append(phase_log, "execute_refinement")
  /\ pc' = "number_cache"
  /\ UNCHANGED << smooth_grid, LifeVars, exception, coarsen_flag, number_cache, times_left, cycles,
                  signal_log, CallVars, noted >>

\* the number cache keeps the counts of the old mesh
update_number_cache_stale ==
  /\ pc = "number_cache"
  /\ phase_log' = Append(phase_log, "number_cache")
  /\ pc' = "post_refinement"
  /\ UNCHANGED << smooth_grid, LifeVars, exception, distorted_children, new_points, noted, refine_flag, coarsen_flag, times_left, cycles,
                  signal_log, triggered, CallVars, MeshVars >>

\* the number cache is recomputed
update_number_cache ==
  /\ pc = "number_cache"
  /\ number_cache' = compute_number_cache(used, has_children)
  /\ phase_log' = Append(phase_log, "number_cache")
  /\ pc' = "post_refinement"
  /\ UNCHANGED << smooth_grid, LifeVars, exception, distorted_children, new_points, noted, used, has_children, refine_flag, coarsen_flag,
                  material_id, manifold_id, levels_size, vertices, vertices_used, boundary_id,
                  times_left,
                  cycles, signal_log, triggered, CallVars >>

\* signals.post_refinement(); execute_coarsening_and_refinement returns, or
\* throws the list of cells with distorted children if there are any; the
\* exception ends a running refine_global
post_refinement ==
  /\ pc = "post_refinement"
  /\ LET list == cells_with_distorted_children(check_for_distorted_cells,
                                                distorted_children)
     IN /\ exception' = IF list # {} THEN "DistortedCellList" ELSE "none"
        /\ times_left' = IF list # {} THEN 0 ELSE times_left
  /\ signal_log' = Append(signal_log, << "post_refinement", Mesh >>)
  /\ triggered' = triggered \o signal_with_any_change("post_refinement")
  /\ phase_log' = Append(phase_log, "post_refinement")
  /\ pc' = "returned"
  /\ UNCHANGED << smooth_grid, LifeVars, distorted_children, new_points, noted, refine_flag, coarsen_flag, cycles,
                  CallVars, MeshVars >>

\* refine_global(times)
refine_global(n) ==
  /\ UserTurn
  /\ refine_flag = {} /\ coarsen_flag = {}
  /\ ExploredInFull
  /\ number_cache.n_levels - 1 + n <= MaxLevel
  /\ cycles + n <= MaxCycles
  /\ times' = n
  /\ times_left' = n
  /\ signal_log' = << >>
  /\ triggered' = << >>
  /\ UNCHANGED << smooth_grid, LifeVars, exception, distorted_children, new_points, noted, refine_flag, coarsen_flag, pc, caller, cycles, passes,
                  flags_at_call, flags_seen, mesh_at_call, phase_log, MeshVars >>

\* one cycle of refine_global: set_all_refine_flags, then execute
refine_global_cycle ==
  /\ pc = "idle"
  /\ times_left > 0
  /\ refine_flag' = ActiveCells
  /\ begin_execute([ r |-> ActiveCells, c |-> coarsen_flag ])
  /\ times_left' = times_left - 1
  /\ UNCHANGED << smooth_grid, LifeVars, exception, distorted_children, new_points, noted, coarsen_flag, times, signal_log, triggered, MeshVars >>

\* control is back at the caller
return_to_caller ==
  /\ pc = "returned"
  /\ pc' = IF is_empty THEN "empty" ELSE "idle"
  /\ exception' = "none"
  /\ caller' = "none"
  /\ times' = IF times_left > 0 THEN times ELSE 0
  /\ passes' = 0
  /\ flags_at_call' = NoFlags
  /\ flags_seen' = {}
  /\ mesh_at_call' = NoMesh
  /\ phase_log' = << >>
  /\ signal_log' = IF times_left > 0 THEN signal_log ELSE << >>
  /\ triggered' = IF times_left > 0 THEN triggered ELSE << >>
  /\ source_triggered' = << >>
  /\ distorted_children' = {}
  /\ new_points' = << >>
  /\ UNCHANGED << smooth_grid, manifold, connections, check_for_distorted_cells, subscriptions,
                  material_id_set, user_data, refine_flag, coarsen_flag, times_left, cycles,
                  MeshVars, noted >>

Next ==
  \/ \E n \in { Repetitions, WideRepetitions } : create_triangulation(n)
  \/ \E c \in AllCells : set_refine_flag(c)
  \/ \E c \in AllCells : set_coarsen_flag(c)
  \/ execute_coarsening_and_refinement
  \/ prepare_coarsening_and_refinement
  \/ prepare_loop
  \/ pre_refinement
  \/ execute_coarsening
  \/ execute_refinement
  \/ update_number_cache
  \/ post_refinement
  \/ \E n \in 1 .. MaxTimes : refine_global(n)
  \/ refine_global_cycle
  \/ return_to_caller

Spec == Init /\ [][Next]_vars

(* ------------------- the life of a triangulation object ---------------- *)
\* the user may call a function of the triangulation
AtRest == pc \in { "empty", "idle" } /\ times_left = 0

\* Triangulation(none, check_for_distorted_cells)
LifeInit ==
  /\ smooth_grid = none
  /\ check_for_distorted_cells \in BOOLEAN
  /\ Constructed

\* GridGenerator::hyper_cube(tria, 0, 1, colorize)
hyper_cube(colorize) ==
  /\ AtRest
  /\ create_coarse_mesh(1, colorize)

\* an object that uses the triangulation (a DoFHandler) subscribes to it
subscribe ==
  /\ AtRest
  /\ subscriptions < MaxSubscriptions
  /\ subscriptions' = subscriptions + 1
  /\ UNCHANGED << smooth_grid, manifold, AttachedVars, distorted_children, new_points, noted, check_for_distorted_cells, exception, material_id_set, user_data,
                  refine_flag, coarsen_flag, pc, times_left, cycles, signal_log,
                  triggered, phase_log, CallVars, MeshVars >>

\* the object releases the triangulation
unsubscribe ==
  /\ AtRest
  /\ subscriptions > 0
  /\ subscriptions' = subscriptions - 1
  /\ UNCHANGED << smooth_grid, manifold, AttachedVars, distorted_children, new_points, noted, check_for_distorted_cells, exception, material_id_set, user_data,
                  refine_flag, coarsen_flag, pc, times_left, cycles, signal_log,
                  triggered, phase_log, CallVars, MeshVars >>

\* the material ids the user gives to cells
MaterialIds == { 0, 1 }

\* cell->set_material_id(new_material_id), on any used cell
set_material_id(c, new_material_id) ==
  /\ UserTurn
  /\ c \in used
  /\ material_id[c] # new_material_id
  /\ Cardinality(material_id_set) < MaxMaterialChanges
  /\ cycles < MaxFlagCycles
  /\ material_id' = [ material_id EXCEPT ![c] = new_material_id ]
  /\ material_id_set' = material_id_set \cup {c}
  /\ UNCHANGED << user_data, smooth_grid, manifold, AttachedVars, distorted_children, new_points, noted, check_for_distorted_cells, subscriptions, exception,
                  used, has_children, manifold_id, levels_size, vertices, vertices_used,
                  number_cache, boundary_id, refine_flag, coarsen_flag, pc, times_left, cycles,
                  signal_log, triggered, phase_log, CallVars >>

\* clear() is taken as if every subscription had been released
clear_allowed_always(n) == TRUE

\* clear() is only allowed if no subscriptions to the object exist
clear_allowed(n) == n = 0

\* all data is deleted
delete_content ==
  /\ install(EmptyMesh)
  /\ manifold' = << >>
  /\ material_id_set' = {}
  /\ user_data' = NoUserData
  /\ refine_flag' = {}
  /\ coarsen_flag' = {}

\* Triangulation::clear(): the clear signal lets the observers have a last
\* look, then all data is deleted
clear ==
  /\ AtRest
  /\ UNCHANGED << smooth_grid, AttachedVars, distorted_children, new_points, noted, check_for_distorted_cells, subscriptions >>
  /\ IF clear_allowed(subscriptions)
     THEN /\ signal_log' = << << "clear", Mesh >> >>
          /\ triggered' = signal_with_any_change("clear")
          /\ delete_content
          /\ returns("clear", "none")
     ELSE /\ UNCHANGED << MeshVars, material_id_set, user_data, manifold, refine_flag,
                          coarsen_flag, signal_log, triggered >>
          /\ returns("clear", "ExcInUse")

\* Triangulation::clear_despite_subscriptions()
clear_despite_subscriptions ==
  /\ AtRest
  /\ delete_content
  /\ returns("clear_despite_subscriptions", "none")
  /\ UNCHANGED << smooth_grid, AttachedVars, distorted_children, new_points, noted, check_for_distorted_cells, subscriptions,
                  signal_log, triggered >>

\* Triangulation::set_mesh_smoothing(mesh_smoothing)
set_mesh_smoothing(mesh_smoothing) ==
  /\ AtRest
  /\ IF triangulation_must_be_empty
     THEN /\ smooth_grid' = mesh_smoothing
          /\ returns("set_mesh_smoothing", "none")
     ELSE /\ UNCHANGED smooth_grid
          /\ returns("set_mesh_smoothing", "ExcTriangulationNotEmpty")
  /\ UNCHANGED << manifold, AttachedVars, distorted_children, new_points, noted, check_for_distorted_cells, subscriptions, material_id_set, user_data,
                  refine_flag, coarsen_flag, signal_log, triggered, MeshVars >>

\* the mesh m after execute_refinement has refined its active cells R
refine_cells(m, R) ==
  LET u == create_children(m.used, R)
      old == UsedPositions(m.vertices, m.vertices_used)
      midpoints == { face_center(c, f) : c \in R, f \in Faces } \ old
      centers == { center(c) : c \in R }
      alloc == allocate_vertices(m.vertices, m.vertices_used,
                 SortPos(midpoints) \o SortPos(centers))
  IN [ used |-> u,
       has_children |-> m.has_children \cup R,
       material_id |-> inherit_material_ids(m.material_id, u),
       manifold_id |-> inherit_manifold_ids(m.manifold_id, u),
       levels_size |-> levels_needed(m.levels_size, u),
       vertices |-> alloc.vertices,
       vertices_used |-> alloc.vertices_used,
       number_cache |-> compute_number_cache(u, m.has_children \cup R),
       boundary_id |-> inherit_boundary_ids(m.boundary_id, u) ]

\* the mesh m after execute_coarsening has deleted the children of the cells D
coarsen_cells(m, D) ==
  LET gone == children_to_delete(D)
      hc == m.has_children \ D
      behind(p, g) == Across(p, g)
      dead == { center(p) : p \in D } \cup
              UNION { { face_center(p, f) :
                          f \in { g \in Faces : \/ coarse_ancestor(behind(p, g)) \notin m.used
                                                 \/ ~ OnLattice(behind(p, g))
                                                 \/ behind(p, g) \notin hc } } :
                      p \in D }
      u == m.used \ gone
  IN [ used |-> u,
       has_children |-> hc,
       material_id |-> [ c \in u |-> m.material_id[c] ],
       manifold_id |-> [ c \in u |-> m.manifold_id[c] ],
       levels_size |-> m.levels_size,
       vertices |-> m.vertices,
       vertices_used |-> << >> \o [ i \in 1 .. Len(m.vertices) |->
                                     m.vertices_used[i] /\ m.vertices[i] \notin dead ],
       number_cache |-> compute_number_cache(u, hc),
       boundary_id |-> [ l \in LinesOf(u) |-> m.boundary_id[l] ] ]

\* every active cell of m is refined: refine_global(1)
refine_all(m) == refine_cells(m, m.used \ m.has_children)

\* the colorized unit square refined once, then its last cell refined, then
\* its first cell refined, then the last cell coarsened again: the vertices
\* of the children of the last cell have left unused slots in the vertex array
mesh_with_holes ==
  LET once == refine_all(coarse_mesh(1, TRUE))
      twice == refine_cells(refine_cells(once, { << 1, 1, 1 >> }), { << 1, 0, 0 >> })
  IN coarsen_cells(twice, { << 1, 1, 1 >> })

\* the mesh m after set_all_manifold_ids(number)
set_all_manifold_ids(m, number) ==
  [ m EXCEPT !.manifold_id = [ c \in m.used |-> number ] ]

\* the other triangulations of the program, and what their archives hold:
\* the colorized unit square as created, with
\* limit_level_difference_at_vertices; and the mesh with holes, the first
\* child of its first cell flagged for coarsening, with manifold id 1 on all
\* cells, material id 1 on one cell and eliminate_refined_boundary_islands
OtherTriangulations ==
  { [ mesh |-> coarse_mesh(1, TRUE), flags |-> NoFlags,
      smooth_grid |-> limit_level_difference_at_vertices,
      manifold |-> << >>,
      connections |-> { "observer_of_other" },
      check_for_distorted_cells |-> b ] : b \in BOOLEAN }
  \cup
  { [ mesh |-> [ set_all_manifold_ids(mesh_with_holes, 1)
                   EXCEPT !.material_id[<< 1, 0, 1 >>] = 1 ],
      flags |-> [ r |-> {}, c |-> { << 2, 0, 0 >> } ],
      smooth_grid |-> eliminate_refined_boundary_islands,
      manifold |-> [ number \in { 1 } |-> "PolarManifold" ],
      connections |-> { "observer_of_other" },
      check_for_distorted_cells |-> b ] : b \in BOOLEAN }

\* the triangulation takes over cells, flags and smoothing of other
take_over(other) ==
  /\ install(other.mesh)
  /\ material_id_set' = {}
  /\ user_data' = NoUserData
  /\ refine_flag' = other.flags.r
  /\ coarsen_flag' = other.flags.c
  /\ smooth_grid' = other.smooth_grid

\* a clean-up in the copy operation: the unused vertex slots are dropped
copied_mesh_without_holes(m) ==
  LET slots == { i \in 1 .. Len(m.vertices) : m.vertices_used[i] }
      kept == SortPos({ m.vertices[i] : i \in slots })
  IN [ used |-> m.used,
       has_children |-> m.has_children,
       material_id |-> m.material_id,
       manifold_id |-> m.manifold_id,
       levels_size |-> m.levels_size,
       vertices |-> kept,
       vertices_used |-> [ i \in 1 .. Len(kept) |-> TRUE ],
       number_cache |-> m.number_cache,
       boundary_id |-> m.boundary_id ]

\* what copy_triangulation stores: every member as it is in the source, the
\* vertex array with its unused slots
copied_mesh(m) ==
  [ used |-> m.used,
    has_children |-> m.has_children,
    material_id |-> m.material_id,
    manifold_id |-> m.manifold_id,
    levels_size |-> m.levels_size,
    vertices |-> m.vertices,
    vertices_used |-> m.vertices_used,
    number_cache |-> m.number_cache,
    boundary_id |-> m.boundary_id ]

\* the connections of the other triangulation come along with its content
connections_copied(own, of_other) == own \cup of_other

\* the list of connections to signals is not copied
connections_after_copy(own, of_other) == own

\* Triangulation::copy_triangulation(other_tria): this triangulation must be
\* empty; triggers the create signal of this triangulation
copy_triangulation(other_tria) ==
  /\ AtRest
  /\ UNCHANGED << check_for_distorted_cells, subscriptions, distorted_children, new_points, noted >>
  /\ IF triangulation_must_be_empty
     THEN /\ take_over([ other_tria EXCEPT !.mesh = copied_mesh(other_tria.mesh) ])
          /\ manifold' = other_tria.manifold
          /\ connections' = connections_after_copy(connections, other_tria.connections)
          /\ source_triggered' = << << "copy", "destination_tria" >> >>
          /\ signal_log' = << << "create", Mesh' >> >>
          /\ triggered' = signal_with_any_change("create")
          /\ returns("copy_triangulation", "none")
     ELSE /\ UNCHANGED << smooth_grid, MeshVars, material_id_set, user_data, refine_flag,
                          coarsen_flag, signal_log, triggered, manifold,
                          AttachedVars >>
          /\ returns("copy_triangulation", "ExcTriangulationNotEmpty")

\* what levels[l] holds: the cells of level l with their flags and ids
level_of(t, l) ==
  LET cells == { c \in t.mesh.used : Level(c) = l }
  IN [ used |-> cells,
       has_children |-> cells \cap t.mesh.has_children,
       refine_flags |-> cells \cap t.flags.r,
       coarsen_flags |-> cells \cap t.flags.c,
       material_id |-> [ c \in cells |-> t.mesh.material_id[c] ],
       manifold_id |-> [ c \in cells |-> t.mesh.manifold_id[c] ] ]

\* Triangulation::save(ar): the items written to the archive, in order;
\* signals and manifold objects are not among them
save(t) ==
  << t.smooth_grid, t.mesh.levels_size >>
  \o [ i \in 1 .. t.mesh.levels_size |-> level_of(t, i - 1) ]
  \o << t.mesh.levels_size = 0 >>
  \o (IF t.mesh.levels_size = 0 THEN << >> ELSE << t.mesh.boundary_id >>)
  \o << t.mesh.vertices, t.mesh.vertices_used, FALSE, t.mesh.number_cache,
        t.check_for_distorted_cells >>

\* the union of the functions of a sequence of records, by field
cells_of_levels(levels) == UNION { levels[i].used : i \in DOMAIN levels }
ids_of_levels(levels, material) ==
  [ c \in cells_of_levels(levels) |->
      LET l == levels[Level(c) + 1]
      IN IF material THEN l.material_id[c] ELSE l.manifold_id[c] ]

\* the manifold ids are not taken from the archive
read_archive_without_manifold_ids(ar) ==
  LET size == ar[2]
      levels == SubSeq(ar, 3, 2 + size)
      faces_is_nullptr == ar[3 + size]
      next == IF faces_is_nullptr THEN 4 + size ELSE 5 + size
  IN [ smooth_grid |-> ar[1],
       mesh |-> [ used |-> cells_of_levels(levels),
                  has_children |-> UNION { levels[i].has_children : i \in DOMAIN levels },
                  material_id |-> ids_of_levels(levels, TRUE),
                  manifold_id |-> [ c \in cells_of_levels(levels) |-> flat_manifold_id ],
                  levels_size |-> Len(levels),
                  vertices |-> ar[next],
                  vertices_used |-> ar[next + 1],
                  number_cache |-> ar[next + 3],
                  boundary_id |-> IF faces_is_nullptr THEN << >> ELSE ar[4 + size] ],
       flags |-> [ r |-> UNION { levels[i].refine_flags : i \in DOMAIN levels },
                   c |-> UNION { levels[i].coarsen_flags : i \in DOMAIN levels } ],
       check_for_distorted_cells |-> ar[next + 4] ]

\* what Triangulation::load reads from the archive, item by item
read_archive(ar) ==
  LET size == ar[2]
      levels == SubSeq(ar, 3, 2 + size)
      faces_is_nullptr == ar[3 + size]
      next == IF faces_is_nullptr THEN 4 + size ELSE 5 + size
  IN [ smooth_grid |-> ar[1],
       mesh |-> [ used |-> cells_of_levels(levels),
                  has_children |-> UNION { levels[i].has_children : i \in DOMAIN levels },
                  material_id |-> ids_of_levels(levels, TRUE),
                  manifold_id |-> ids_of_levels(levels, FALSE),
                  levels_size |-> Len(levels),
                  vertices |-> ar[next],
                  vertices_used |-> ar[next + 1],
                  number_cache |-> ar[next + 3],
                  boundary_id |-> IF faces_is_nullptr THEN << >> ELSE ar[4 + size] ],
       flags |-> [ r |-> UNION { levels[i].refine_flags : i \in DOMAIN levels },
                   c |-> UNION { levels[i].coarsen_flags : i \in DOMAIN levels } ],
       check_for_distorted_cells |-> ar[next + 4] ]

\* the builds of the library: Assert is checked in debug mode only
Builds == { "debug", "release" }

\* load() triggers the create signal although clear() was refused
create_signal_of_load_always(cleared, same_setting, build) == TRUE

\* load() reaches signals.create(): clear() has worked, and the Assert on
\* check_for_distorted_cells holds or is not compiled in
create_signal_of_load(cleared, same_setting, build) ==
  cleared /\ (same_setting \/ build = "release")

\* Triangulation::load(ar): clear(), read the data, trigger the create signal
load(ar) ==
  /\ AtRest
  /\ UNCHANGED << AttachedVars, distorted_children, new_points, noted, check_for_distorted_cells, subscriptions >>
  /\ \E build \in Builds :
       LET cleared == clear_allowed(subscriptions)
           read == read_archive(ar)
           same_setting == read.check_for_distorted_cells = check_for_distorted_cells
           created == create_signal_of_load(cleared, same_setting, build)
       IN /\ IF cleared
             THEN take_over(read) /\ manifold' = << >>
             ELSE UNCHANGED << smooth_grid, MeshVars, material_id_set, user_data, manifold,
                               refine_flag, coarsen_flag >>
          /\ signal_log' = (IF cleared THEN << << "clear", Mesh >> >> ELSE << >>)
                            \o (IF created THEN << << "create", Mesh' >> >> ELSE << >>)
          /\ triggered' = (IF cleared THEN signal_with_any_change("clear") ELSE << >>)
                           \o (IF created THEN signal_with_any_change("create") ELSE << >>)
          /\ returns("load", IF ~ cleared THEN "ExcInUse"
                             ELSE IF created THEN "none" ELSE "ExcMessage")

LifeNext ==
  \/ \E colorize \in BOOLEAN : hyper_cube(colorize)
  \/ \E c \in AllCells : set_refine_flag(c)
  \/ \E c \in AllCells : set_coarsen_flag(c)
  \/ execute_coarsening_and_refinement
  \/ prepare_coarsening_and_refinement
  \/ prepare_loop
  \/ pre_refinement
  \/ execute_coarsening
  \/ execute_refinement
  \/ update_number_cache
  \/ post_refinement
  \/ \E n \in 1 .. MaxTimes : refine_global(n)
  \/ refine_global_cycle
  \/ return_to_caller
  \/ subscribe
  \/ unsubscribe
  \/ clear
  \/ clear_despite_subscriptions
  \/ \E s \in LifeSmoothingSettings : set_mesh_smoothing(s)
  \/ \E other_tria \in OtherTriangulations : copy_triangulation(other_tria)
  \/ \E saved \in OtherTriangulations : load(save(saved))

LifeSpec == LifeInit /\ [][LifeNext]_vars

\* a program that makes the unit square, refines and coarsens it and sets
\* material ids of its cells
MaterialInit ==
  /\ smooth_grid = none
  /\ check_for_distorted_cells = FALSE
  /\ Constructed

MaterialNext ==
  \/ \E colorize \in BOOLEAN : hyper_cube(colorize)
  \/ \E c \in AllCells : set_refine_flag(c)
  \/ \E c \in AllCells : set_coarsen_flag(c)
  \/ execute_coarsening_and_refinement
  \/ prepare_coarsening_and_refinement
  \/ prepare_loop
  \/ pre_refinement
  \/ execute_coarsening
  \/ execute_refinement
  \/ update_number_cache
  \/ post_refinement
  \/ \E n \in 1 .. MaxTimes : refine_global(n)
  \/ refine_global_cycle
  \/ return_to_caller
  \/ \E c \in AllCells, m \in MaterialIds : set_material_id(c, m)

MaterialSpec == MaterialInit /\ [][MaterialNext]_vars

\* cells with user data of the one kind can be accessed as the other kind
pointer_index_clash_ignored(type, wanted) == FALSE

\* user pointers and user indices are stored in the same place: the kind in
\* use does not allow access to the other kind
pointer_index_clash(type, wanted) == type \notin { "data_unknown", wanted }

\* what the calls on user data leave alone
NotUserData ==
  << smooth_grid, manifold, AttachedVars, distorted_children, new_points, noted, check_for_distorted_cells,
     subscriptions, material_id_set, refine_flag, coarsen_flag, signal_log, triggered,
     MeshVars >>

\* cell->set_user_pointer(p) and cell->set_user_index(p): access of kind
\* wanted to the user data of cell c
access_user_data(name, wanted, c, p) ==
  /\ AtRest
  /\ c \in used
  /\ Cardinality(DOMAIN user_data.data \cup { c }) <= MaxUserData
  /\ IF pointer_index_clash(user_data.type, wanted)
     THEN UNCHANGED user_data /\ returns(name, "ExcPointerIndexClash")
     ELSE /\ user_data' = [ type |-> wanted,
                            data |-> [ d \in DOMAIN user_data.data \cup { c } |->
                                         IF d = c THEN p ELSE user_data.data[d] ] ]
          /\ returns(name, "none")
  /\ UNCHANGED NotUserData

set_user_pointer(c, p) == access_user_data("set_user_pointer", "data_pointer", c, p)

set_user_index(c, p) == access_user_data("set_user_index", "data_index", c, p)

\* Triangulation::clear_user_data()
clear_user_data ==
  /\ AtRest
  /\ user_data' = NoUserData
  /\ returns("clear_user_data", "none")
  /\ UNCHANGED NotUserData

\* the values a program stores as user data
UserValues == { 1, 2 }

\* a program that makes the unit square, refines it globally and keeps user
\* data on its cells
UserDataInit ==
  /\ smooth_grid = none
  /\ check_for_distorted_cells = FALSE
  /\ Constructed

UserDataNext ==
  \/ hyper_cube(FALSE)
  \/ \E c \in AllCells : set_coarsen_flag(c)
  \/ execute_coarsening_and_refinement
  \/ refine_global(1)
  \/ refine_global_cycle
  \/ prepare_loop
  \/ pre_refinement
  \/ execute_coarsening
  \/ execute_refinement
  \/ update_number_cache
  \/ post_refinement
  \/ return_to_caller
  \/ \E c \in AllCells, p \in UserValues : set_user_pointer(c, p)
  \/ \E c \in AllCells, p \in UserValues : set_user_index(c, p)
  \/ clear_user_data

UserDataSpec == UserDataInit /\ [][UserDataNext]_vars

\* the manifold numbers the program uses, and its manifold objects
ManifoldNumbers == { 0, 1 }
Manifolds == { "PolarManifold", "FlatManifold" }

\* resetting one number removes every manifold object
manifold_without_any(map, number) == << >>

\* the map without an object for number
manifold_without(map, number) ==
  [ n \in DOMAIN map \ { number } |-> map[n] ]

\* the map with manifold_object for number; only objects that are not of
\* type FlatManifold are stored
manifold_with(map, number, manifold_object) ==
  IF manifold_object = "FlatManifold"
  THEN manifold_without(map, number)
  ELSE [ n \in DOMAIN map \cup { number } |->
           IF n = number THEN manifold_object ELSE map[n] ]

\* what the calls on manifolds leave alone
NotManifold ==
  << smooth_grid, AttachedVars, distorted_children, new_points, noted, check_for_distorted_cells,
     subscriptions, exception, material_id_set, user_data, refine_flag, coarsen_flag, pc, times_left,
     cycles, signal_log, triggered, phase_log, CallVars >>

\* Triangulation::set_manifold(number, manifold_object)
set_manifold(number, manifold_object) ==
  /\ AtRest
  /\ manifold' = manifold_with(manifold, number, manifold_object)
  /\ UNCHANGED << NotManifold, MeshVars >>

\* Triangulation::reset_manifold(manifold_number)
reset_manifold(manifold_number) ==
  /\ AtRest
  /\ manifold' = manifold_without(manifold, manifold_number)
  /\ UNCHANGED << NotManifold, MeshVars >>

\* Triangulation::reset_all_manifolds()
reset_all_manifolds ==
  /\ AtRest
  /\ manifold' = << >>
  /\ UNCHANGED << NotManifold, MeshVars >>

\* Triangulation::set_all_manifold_ids(number) on this triangulation
assign_all_manifold_ids(number) ==
  /\ AtRest
  /\ manifold_id' = set_all_manifold_ids(Mesh, number).manifold_id
  /\ UNCHANGED << NotManifold, manifold, used, has_children, material_id, levels_size,
                  vertices, vertices_used, number_cache, boundary_id >>

\* a program that makes the unit square, attaches manifolds to it and
\* refines and coarsens it
ManifoldInit ==
  /\ smooth_grid = none
  /\ check_for_distorted_cells \in BOOLEAN
  /\ Constructed

ManifoldNext ==
  \/ hyper_cube(FALSE)
  \/ \E c \in AllCells : set_refine_flag(c)
  \/ \E c \in AllCells : set_coarsen_flag(c)
  \/ execute_coarsening_and_refinement
  \/ prepare_loop
  \/ pre_refinement
  \/ execute_coarsening
  \/ execute_refinement
  \/ update_number_cache
  \/ post_refinement
  \/ return_to_caller
  \/ \E number \in ManifoldNumbers, manifold_object \in Manifolds :
       set_manifold(number, manifold_object)
  \/ \E number \in ManifoldNumbers : reset_manifold(number)
  \/ reset_all_manifolds
  \/ \E number \in ManifoldNumbers : assign_all_manifold_ids(number)

ManifoldSpec == ManifoldInit /\ [][ManifoldNext]_vars

(* ------------------------- adjacency of cells -------------------------- *)
\* corners of the square a cell covers, on the finest lattice
Lower(c) == << c[2] * Scale(c[1]), c[3] * Scale(c[1]) >>
Upper(c) == << (c[2] + 1) * Scale(c[1]), (c[3] + 1) * Scale(c[1]) >>
Smaller(m, n) == IF m < n THEN m ELSE n
Larger(m, n) == IF m < n THEN n ELSE m
\* length of the common part of the two cells in coordinate direction k
Overlap(a, b, k) == Smaller(Upper(a)[k], Upper(b)[k]) - Larger(Lower(a)[k], Lower(b)[k])

\* the two cells have (part of) a face in common
share_face(a, b) ==
  /\ a # b
  /\ \/ Overlap(a, b, 1) = 0 /\ Overlap(a, b, 2) > 0
     \/ Overlap(a, b, 1) > 0 /\ Overlap(a, b, 2) = 0
\* the two cells have a vertex in common
share_vertex(a, b) == a # b /\ CellVertices(a) \cap CellVertices(b) # {}

LevelDifference(a, b) == IF a[1] < b[1] THEN b[1] - a[1] ELSE a[1] - b[1]

\* execute_coarsening_and_refinement has just returned to its caller
ExecuteReturned == pc = "returned" /\ caller = "execute"
\* no call is running
Quiescent == pc \in { "idle", "returned" }

(* ------------------------------ properties ----------------------------- *)
\* C1: in every state, whatever the smoothing setting and whatever flags the
\* user set before the calls of execute_coarsening_and_refinement, two active
\* cells that share a face differ by at most one level.
C1_FaceLevelDifference ==
  \A a \in ActiveCells, b \in ActiveCells :
    share_face(a, b) => LevelDifference(a, b) <= 1

\* a call has returned that refined a coarser neighbor the user had not flagged
C1_Witness ==
  /\ ExecuteReturned
  /\ \E c \in has_children \ mesh_at_call.has_children :
       /\ c \notin flags_at_call.r
       /\ \E d \in flags_at_call.r : Level(d) = Level(c) + 1 /\ share_face(c, d)

\* C2 as stated: after execute_coarsening_and_refinement, for every smoothing
\* setting, active cells sharing a face or a vertex differ by at most one level.
C2_Original ==
  Quiescent =>
    \A a \in ActiveCells, b \in ActiveCells :
      (share_face(a, b) \/ share_vertex(a, b)) => LevelDifference(a, b) <= 1

\* C2 amended: after execute_coarsening_and_refinement active cells sharing a
\* face differ by at most one level for every smoothing setting, and active
\* cells sharing a vertex differ by at most one level when the smoothing
\* setting contains limit_level_difference_at_vertices.
C2_VertexLevelDifference ==
  Quiescent =>
    \A a \in ActiveCells, b \in ActiveCells :
      /\ share_face(a, b) => LevelDifference(a, b) <= 1
      /\ (HasBit(smooth_grid, limit_level_difference_at_vertices) /\ share_vertex(a, b))
           => LevelDifference(a, b) <= 1

\* with limit_level_difference_at_vertices a call has refined a cell the user
\* had not flagged and that meets the flagged cell at a vertex only
C2_Witness ==
  /\ ExecuteReturned
  /\ HasBit(smooth_grid, limit_level_difference_at_vertices)
  /\ \E c \in has_children \ mesh_at_call.has_children :
       /\ c \notin flags_at_call.r
       /\ \E d \in flags_at_call.r :
            /\ Level(d) = Level(c) + 1
            /\ share_vertex(c, d)
            /\ ~ share_face(c, d)

\* C3 as stated: in every state the children of a refined cell are either all
\* active or all refined.
C3_Original ==
  \A p \in has_children :
    \/ \A ch \in Children(p) : active(ch)
    \/ \A ch \in Children(p) : ch \in has_children

\* C3 amended: in every state every used cell is either active, and then none
\* of its children is used, or refined, and then exactly 2^dim children are
\* used; every used cell above the coarsest level is the child of a refined
\* cell.  The children of one cell may be partly active and partly refined.
C3_CellsActiveOrRefined ==
  /\ \A c \in used :
       IF c \in has_children
       THEN Cardinality(Children(c) \cap used) = 2 ^ dim
       ELSE Children(c) \cap used = {}
  /\ \A c \in used : Level(c) > 0 => parent(c) \in has_children
  /\ has_children \subseteq used

\* a refined cell with an active child and a refined child
C3_Witness ==
  \E p \in has_children :
    /\ \E ch \in Children(p) : active(ch)
    /\ \E ch \in Children(p) : ch \in has_children

\* execute_coarsening_and_refinement was called by the user (not by
\* refine_global) when no cell carried a flag, and has returned
NoFlagCallReturned == ExecuteReturned /\ flags_at_call = NoFlags

C5_FlagsCleared == ExecuteReturned => (refine_flag = {} /\ coarsen_flag = {})

\* a call has returned that was entered with refine and coarsen flags and
\* that did not coarsen the flagged cells
C5_Witness ==
  /\ ExecuteReturned
  /\ flags_at_call.r # {}
  /\ flags_at_call.c # {}
  /\ flags_at_call.c \subseteq used

\* the signals of the cycles of execute_coarsening_and_refinement done so far
\* by the running call: pre_refinement, post_refinement in turns
SignalsAlternate ==
  \A i \in 1 .. Len(signal_log) :
    signal_log[i][1] = IF i % 2 = 1 THEN "pre_refinement" ELSE "post_refinement"

\* C6: when execute_coarsening_and_refinement returns, pre_refinement has
\* fired once, seeing the cells and vertices as they were when the call was
\* entered, and then post_refinement once, seeing them as they are on return;
\* during refine_global(times) the signals of the cycles done so far are as
\* many such pairs, in turns.
C6_Signals ==
  ExecuteReturned =>
    LET done == IF times = 0 THEN 1 ELSE times - times_left
    IN /\ Len(signal_log) = 2 * done
       /\ SignalsAlternate
       /\ signal_log[2 * done - 1] = << "pre_refinement", mesh_at_call >>
       /\ signal_log[2 * done] = << "post_refinement", Mesh >>

\* refine_global(2) has done its second cycle
C6_Witness ==
  /\ ExecuteReturned
  /\ times = 2
  /\ times_left = 0
  /\ Len(signal_log) = 4

\* C7: the phases of a call of execute_coarsening_and_refinement come in the
\* order prepare, pre_refinement, execute_coarsening, execute_refinement,
\* number cache, post_refinement: the mesh is untouched until the
\* pre-refinement signal, no cell is created before execute_refinement runs,
\* and the number cache is up to date when the post-refinement signal fires.
C7_PhaseOrder ==
  /\ ExecuteReturned =>
       phase_log = << "prepare", "pre_refinement", "execute_coarsening",
                      "execute_refinement", "number_cache", "post_refinement" >>
  /\ (caller = "execute" /\ pc \in { "prepare", "pre_refinement", "execute_coarsening" })
       => Mesh = mesh_at_call
  /\ pc = "execute_refinement" =>
       (used \subseteq mesh_at_call.used /\ has_children \subseteq mesh_at_call.has_children)
  /\ pc \in { "post_refinement", "returned" } =>
       number_cache = compute_number_cache(used, has_children)

\* a call has returned that both coarsened and refined cells
C7_Witness ==
  /\ ExecuteReturned
  /\ mesh_at_call.used \ used # {}
  /\ used \ mesh_at_call.used # {}

PrepareReturned ==
  \/ pc = "returned" /\ caller = "user"
  \/ pc = "pre_refinement"

C10_Original == pc = "prepare" => passes <= number_cache.n_levels

\* C10 amended: prepare_coarsening_and_refinement terminates: no pass of its
\* loop starts with flags an earlier pass of the same call started with, so
\* the loop, which goes on only after a pass that changed a flag, reaches a
\* pass that changes none.  The number of passes is not bounded by the
\* number of levels: with eliminate_unrefined_islands two passes change flags
\* on a coarse mesh of a single level.
C10_Terminates == pc = "prepare" => Flags \notin flags_seen

\* a call by the user has returned after two passes that changed flags and a
\* third that changed none
C10_Witness ==
  /\ pc = "returned"
  /\ caller = "user"
  /\ passes = 3
  /\ Flags # flags_at_call

\* the coarsen flags are all-or-nothing per sibling group: a flagged cell is
\* the child of a cell all of whose children are active and flagged
CoarsenFlagsAllOrNothing ==
  \A c \in coarsen_flag :
    /\ Level(c) > 0
    /\ \A d \in Children(parent(c)) : active(d) /\ d \in coarsen_flag

\* the refined cells exactly three of whose four children carried the
\* coarsen flag when the call was entered
ThreeOfFourFlagged ==
  { p \in has_children :
      Cardinality(Children(p) \cap flags_at_call.c) = children_per_cell - 1 }

CoarseningStep ==
  pc = "execute_coarsening" =>
    \A c \in used \ used' :
      /\ \A d \in Children(parent(c)) : d \in coarsen_flag /\ d \notin used'
      /\ parent(c) \in used' \ has_children'

\* C12: when execute_coarsening_and_refinement returns, of every cell that
\* had children when the call was entered either all children are still used
\* or none is and the cell is active; and execute_coarsening removes a cell
\* only together with all its siblings, each carrying the coarsen flag.
C12_CoarseningAtomic ==
  /\ [](ExecuteReturned =>
          \A p \in mesh_at_call.has_children :
            \/ Children(p) \subseteq used
            \/ Children(p) \cap used = {} /\ active(p))
  /\ [][CoarseningStep]_vars

\* a call has returned that removed the four flagged children of a cell
C12_Witness ==
  /\ ExecuteReturned
  /\ \E p \in mesh_at_call.has_children :
       /\ Children(p) \subseteq flags_at_call.c
       /\ Children(p) \cap used = {}
       /\ active(p)

\* the cell itself and the cells it descends from
ancestors_and_self(c) ==
  { a \in AllCells : /\ a[1] <= c[1]
                     /\ a[2] = c[2] \div Pow2(c[1] - a[1])
                     /\ a[3] = c[3] \div Pow2(c[1] - a[1]) }

\* what execute_refinement does to the material ids: each of the 4 children
\* of a refined cell with material id M has material id M, and no other cell
\* changes its material id
MaterialInheritanceStep ==
  pc = "execute_refinement" =>
    /\ \A c \in cells_to_refine :
         \A d \in Children(c) : d \in used' /\ material_id'[d] = material_id[c]
    /\ \A c \in used : material_id'[c] = material_id[c]

\* C13: each child made by execute_refinement has the material id of its
\* parent; hence every cell has the material id of its level-0 ancestor
\* unless a material id was set by the user on the cell or on a cell it
\* descends from.
C13_MaterialIdsInherited ==
  /\ [](\A c \in used :
          ancestors_and_self(c) \cap material_id_set = {}
            => material_id[c] = material_id[coarse_ancestor(c)])
  /\ [][MaterialInheritanceStep]_vars

\* a cell whose material id the user has set to 1 has been refined and its
\* children have material id 1, while the children of another cell of the
\* same level have the material id 0 of the coarse cell
C13_Witness ==
  /\ ExecuteReturned
  /\ \E c \in material_id_set \cap has_children :
       /\ c \notin mesh_at_call.has_children
       /\ material_id[c] = 1
       /\ \A d \in Children(c) : material_id[d] = 1
  /\ \E c \in has_children \ material_id_set :
       /\ material_id[coarse_ancestor(c)] = 0
       /\ \A d \in Children(c) : material_id[d] = 0

\* the two children of a line
child_lines(l) ==
  LET mid == << (l[1][1] + l[2][1]) \div 2, (l[1][2] + l[2][2]) \div 2 >>
  IN { << l[1], mid >>, << mid, l[2] >> }

\* the four lines from the face midpoints of a cell to its center
interior_lines(c) ==
  { << face_center(c, 0), center(c) >>, << center(c), face_center(c, 1) >>,
    << face_center(c, 2), center(c) >>, << center(c), face_center(c, 3) >> }

\* what execute_refinement does to the boundary ids: the children of a line
\* of a refined cell have the boundary id of that line, the lines made in the
\* interior of a refined cell have the reserved value
BoundaryInheritanceStep ==
  pc = "execute_refinement" =>
    \A c \in cells_to_refine :
      /\ \A l \in CellLines(c) : \A k \in child_lines(l) :
           k \in DOMAIN boundary_id' /\ boundary_id'[k] = boundary_id[l]
      /\ \A k \in interior_lines(c) :
           k \in DOMAIN boundary_id' /\ boundary_id'[k] = internal_face_boundary_id

\* C14: the two children of a refined line with boundary id B have boundary
\* id B, the lines made in the interior of a refined cell have
\* numbers::internal_face_boundary_id, and the line that is face f of a cell
\* has the reserved value if and only if the face is not at the boundary.
C14_BoundaryIdsInherited ==
  /\ [](\A c \in used, f \in Faces :
          /\ face_line(c, f) \in DOMAIN boundary_id
          /\ boundary_id[face_line(c, f)] = internal_face_boundary_id
               <=> ~ at_boundary(c, f))
  /\ [][BoundaryInheritanceStep]_vars

\* a cell on the right side of the colorized square has been refined: the
\* children of its boundary line have boundary id 1, its interior lines the
\* reserved value
C14_Witness ==
  /\ ExecuteReturned
  /\ \E c \in has_children \ mesh_at_call.has_children :
       /\ mesh_at_call.boundary_id[face_line(c, 1)] = 1
       /\ \A k \in child_lines(face_line(c, 1)) :
            k \in DOMAIN boundary_id /\ boundary_id[k] = 1
       /\ \A k \in interior_lines(c) :
            k \in DOMAIN boundary_id /\ boundary_id[k] = internal_face_boundary_id

\* refine_global(1) has returned, called on the unit square as
\* GridGenerator::hyper_cube makes it without colorize
UnitSquareRefinedOnce ==
  /\ ExecuteReturned
  /\ times = 1
  /\ times_left = 0
  /\ LET m == coarse_mesh(1, FALSE)
     IN \A field \in DOMAIN m : mesh_at_call[field] = m[field]

n_used_vertices == Cardinality({ i \in DOMAIN vertices_used : vertices_used[i] })

\* C15: the unit square of hyper_cube (colorize false) has, after
\* refine_global(1), exactly 4 active cells and 9 used vertices, material id 0
\* on every cell, boundary id 0 on every line at the boundary and the reserved
\* boundary id on exactly the 4 lines in the interior.
C15_UnitSquareRefinedOnce ==
  UnitSquareRefinedOnce =>
    /\ Cardinality(ActiveCells) = 4
    /\ number_cache.n_active_cells = 4
    /\ n_used_vertices = 9
    /\ \A c \in used : material_id[c] = 0
    /\ \A c \in used, f \in Faces :
         at_boundary(c, f) => boundary_id[face_line(c, f)] = 0
    /\ LET interior == { l \in DOMAIN boundary_id :
                           boundary_id[l] = internal_face_boundary_id }
       IN /\ Cardinality(interior) = 4
          /\ interior = interior_lines(<< 0, 0, 0 >>)
    /\ Cardinality({ l \in LinesOf(ActiveCells) : boundary_id[l] = 0 }) = 8

\* refine_global(1) has returned on the unit square and the four children of
\* its cell are the active cells
C15_Witness ==
  /\ UnitSquareRefinedOnce
  /\ ActiveCells = Children(<< 0, 0, 0 >>)

\* the four cells in the corners of the 4 x 4 mesh
CornerCells == { << 1, x, y >> : x \in { 0, 3 }, y \in { 0, 3 } }

\* prepare_coarsening_and_refinement has returned, called with
\* limit_level_difference_at_vertices on the 4 x 4 mesh of 16 active cells of
\* one level with the refine flag on one corner cell only
CornerCellFlagged ==
  /\ PrepareReturned
  /\ HasBit(smooth_grid, limit_level_difference_at_vertices)
  /\ ActiveCells = UNION { Children(c) : c \in CoarseCells(Repetitions) }
  /\ Cardinality(ActiveCells) = 16
  /\ flags_at_call.c = {}
  /\ \E c \in CornerCells : flags_at_call.r = {c}

\* C16: on the 4 x 4 mesh of 16 active cells of one level, with
\* limit_level_difference_at_vertices, prepare_coarsening_and_refinement
\* called with the refine flag on one corner cell only adds no refine flag:
\* exactly that cell is flagged afterwards.
C16_CornerFlagAlone ==
  CornerCellFlagged =>
    /\ refine_flag = flags_at_call.r
    /\ Cardinality(refine_flag) = 1
    /\ coarsen_flag = {}

\* the call has returned to the user with the corner cell (0,0) flagged
C16_Witness ==
  /\ CornerCellFlagged
  /\ pc = "returned"
  /\ caller = "user"
  /\ flags_at_call.r = { << 1, 0, 0 >> }
  /\ << 1, 0, 0 >> \in refine_flag

\* the triangulation is as the constructor leaves it, with the smoothing
\* setting it had when the call was entered
VirginState ==
  /\ is_empty
  /\ \A field \in DOMAIN EmptyMesh : Mesh[field] = EmptyMesh[field]
  /\ Flags = NoFlags
  /\ smooth_grid = mesh_at_call.smooth_grid

ClearReturned == pc = "returned" /\ caller = "clear"

\* C17: clear() called while there is a subscription fails and leaves mesh
\* and flags as they were; called without subscriptions it leaves the
\* triangulation empty; clear_despite_subscriptions() leaves it empty whether
\* or not there are subscriptions.
C17_ClearAndSubscriptions ==
  /\ (ClearReturned /\ subscriptions > 0)
       => /\ exception = "ExcInUse"
          /\ Mesh = mesh_at_call
          /\ Flags = flags_at_call
          /\ triggered = << >>
  /\ (ClearReturned /\ subscriptions = 0)
       => /\ exception = "none"
          /\ VirginState
  /\ (pc = "returned" /\ caller = "clear_despite_subscriptions")
       => /\ exception = "none"
          /\ VirginState

\* clear() has been refused on a triangulation with cells and a subscription
C17_Witness ==
  /\ ClearReturned
  /\ subscriptions > 0
  /\ exception = "ExcInUse"
  /\ Cardinality(used) > 1

\* one of the functions that need an empty triangulation has returned
NeedsEmptyReturned ==
  /\ pc = "returned"
  /\ caller \in { "create_triangulation", "copy_triangulation", "set_mesh_smoothing" }

\* the triangulation stored vertices or cells when the call was entered
StoredContentAtCall ==
  Len(mesh_at_call.vertices) > 0 \/ mesh_at_call.number_cache.n_levels > 0

\* C18: create_triangulation, copy_triangulation and set_mesh_smoothing
\* called on a triangulation that stores vertices or cells fail with
\* ExcTriangulationNotEmpty and leave vertices, cells, flags, material and
\* boundary ids and the smoothing setting as they were; called on an empty
\* triangulation they are accepted.
C18_OnlyOnEmptyTriangulation ==
  NeedsEmptyReturned =>
    IF StoredContentAtCall
    THEN /\ exception = "ExcTriangulationNotEmpty"
         /\ Mesh = mesh_at_call
         /\ Flags = flags_at_call
         /\ triggered = << >>
    ELSE exception = "none"

\* copy_triangulation has been refused on a refined triangulation that
\* carries a refine flag
C18_Witness ==
  /\ NeedsEmptyReturned
  /\ caller = "copy_triangulation"
  /\ exception = "ExcTriangulationNotEmpty"
  /\ has_children # {}
  /\ refine_flag # {}

LoadReturned == pc = "returned" /\ caller = "load"

\* how often the signal was triggered in the call
times_triggered(name) ==
  Cardinality({ i \in DOMAIN triggered : triggered[i][1] = name })

\* C19: a load() that returns normally has triggered the clear signal once,
\* while the triangulation still had the content it had at the call, and
\* then the create signal once, with the content read from the archive in
\* place; a load() that fails has not triggered the create signal.
C19_LoadClearThenCreate ==
  LoadReturned =>
    /\ exception = "none" =>
         /\ signal_log = << << "clear", mesh_at_call >>, << "create", Mesh >> >>
         /\ triggered = signal_with_any_change("clear") \o signal_with_any_change("create")
         /\ times_triggered("clear") = 1
         /\ times_triggered("create") = 1
    /\ exception # "none" =>
         /\ times_triggered("create") = 0
         /\ times_triggered("clear") <= 1

\* load() has returned normally on a triangulation that had cells before
\* and has other content now
C19_Witness ==
  /\ LoadReturned
  /\ exception = "none"
  /\ mesh_at_call.used # {}
  /\ used # {}
  /\ Mesh # mesh_at_call
  /\ Len(signal_log) = 2

\* the signals that any_change is connected to
ChangeSignals == { "create", "post_refinement", "clear" }

\* C20: in the sequence of signals triggered in a call, each create,
\* post_refinement and clear is followed at once by any_change, and each
\* any_change follows one of them at once: pre_refinement,
\* pre_coarsening_on_cell and post_refinement_on_cell do not trigger it.
C20_AnyChange ==
  /\ \A i \in DOMAIN triggered :
       /\ triggered[i][1] \in ChangeSignals
            => i < Len(triggered) /\ triggered[i + 1] = signal("any_change")
       /\ triggered[i] = signal("any_change")
            => i > 1 /\ triggered[i - 1][1] \in ChangeSignals
  /\ times_triggered("any_change")
       = times_triggered("create") + times_triggered("post_refinement")
         + times_triggered("clear")

\* a call that has coarsened and refined cells has returned: pre_refinement
\* and the signals of the cells were triggered, any_change only once, after
\* post_refinement
C20_Witness ==
  /\ ExecuteReturned
  /\ times_triggered("pre_refinement") = 1
  /\ times_triggered("pre_coarsening_on_cell") > 0
  /\ times_triggered("post_refinement_on_cell") > 0
  /\ times_triggered("post_refinement") = 1
  /\ times_triggered("any_change") = 1
  /\ triggered[Len(triggered)] = signal("any_change")

CopyReturned == pc = "returned" /\ caller = "copy_triangulation"

\* what an observer is told by the signals of this triangulation in the
\* running call
notified(observer) == IF observer \in connections THEN triggered ELSE << >>

\* C21: a copy_triangulation that is accepted triggers the copy signal of
\* the source with the destination as argument and the create signal of the
\* destination; the connections of the source are not copied, so its
\* observer is never told of a signal of the destination; the copy signal is
\* triggered by nothing else.
C21_CopySignals ==
  /\ (CopyReturned /\ exception = "none")
       => /\ source_triggered = << << "copy", "destination_tria" >> >>
          /\ triggered = signal_with_any_change("create")
          /\ notified("observer") = triggered
  /\ notified("observer_of_other") = << >>
  /\ source_triggered # << >> => (CopyReturned /\ exception = "none")

\* a refined triangulation has been copied: the copy signal of the source
\* was triggered, the observer of the destination was told of the create
\* signal, the observer of the source was not
C21_Witness ==
  /\ CopyReturned
  /\ exception = "none"
  /\ has_children # {}
  /\ Len(source_triggered) = 1
  /\ times_triggered("create") = 1
  /\ notified("observer") # << >>
  /\ notified("observer_of_other") = << >>

\* the cells an iterator visits, from begin() to end()
cells_in_order(u) ==
  LET member(c) == c \in u
  IN SelectSeq(CellOrder, member)

\* the vertex array has an unused slot before a used one
HasHoles(vs_used) ==
  \E i \in DOMAIN vs_used, j \in DOMAIN vs_used : i < j /\ ~ vs_used[i] /\ vs_used[j]

C23_SaveLoadRoundTrip ==
  (LoadReturned /\ exception = "none") =>
    \E saved \in OtherTriangulations :
      /\ Cardinality(ActiveCells)
           = Cardinality(saved.mesh.used \ saved.mesh.has_children)
      /\ number_cache.n_active_cells = saved.mesh.number_cache.n_active_cells
      /\ vertices = saved.mesh.vertices
      /\ vertices_used = saved.mesh.vertices_used
      /\ used = saved.mesh.used
      /\ material_id = saved.mesh.material_id
      /\ manifold_id = saved.mesh.manifold_id
      /\ boundary_id = saved.mesh.boundary_id
      /\ \A number \in DOMAIN saved.manifold : get_manifold(number) = "FlatManifold"
      /\ connections \cap saved.connections = {}
      /\ connections = { "observer" }

\* the refined triangulation with manifold id 1 on its cells and a manifold
\* object for it has been saved and loaded: the cells have manifold id 1,
\* the manifold of id 1 is flat
C23_Witness ==
  /\ LoadReturned
  /\ exception = "none"
  /\ has_children # {}
  /\ HasHoles(vertices_used)
  /\ \A c \in used : manifold_id[c] = 1
  /\ \E c \in used : material_id[c] = 1
  /\ get_manifold(1) = "FlatManifold"

\* the mesh that results from mesh_at_call when the children of the cells D
\* are deleted and the cells R get children
FullyRefined(D, R) ==
  LET m == refine_cells(coarsen_cells(mesh_at_call, D), R)
  IN [ f \in DOMAIN mesh_at_call |->
         IF f = "smooth_grid" THEN mesh_at_call.smooth_grid ELSE m[f] ]

\* C24: execute_coarsening_and_refinement throws DistortedCellList iff
\* check_for_distorted_cells was given to the constructor and a cell refined
\* in the call has a distorted child; it throws after the post_refinement
\* signal, as its last step, and with or without the exception the mesh is
\* the fully refined one: children linked, number cache recomputed, flags
\* cleared.
C24_DistortedCellsReported ==
  ExecuteReturned =>
    /\ exception \in { "none", "DistortedCellList" }
    /\ exception = "DistortedCellList"
         <=> (check_for_distorted_cells /\ distorted_children # {})
    /\ distorted_children \subseteq has_children \ mesh_at_call.has_children
    /\ Mesh = FullyRefined(mesh_at_call.has_children \ has_children,
                           has_children \ mesh_at_call.has_children)
    /\ \A c \in has_children : Children(c) \subseteq used
    /\ number_cache = compute_number_cache(used, has_children)
    /\ refine_flag = {} /\ coarsen_flag = {}
    /\ phase_log[Len(phase_log)] = "post_refinement"
    /\ triggered[Len(triggered)] = signal("any_change")
    /\ triggered[Len(triggered) - 1] = signal("post_refinement")

\* a triangulation constructed with check_for_distorted_cells has refined a
\* cell whose manifold is not flat, a child is distorted and the call has
\* thrown
C24_Witness ==
  /\ ExecuteReturned
  /\ check_for_distorted_cells
  /\ exception = "DistortedCellList"
  /\ distorted_children # {}
  /\ \E c \in distorted_children : get_manifold(manifold_id[c]) = "PolarManifold"

\* the manifold numbers a program can ask for: those it sets and
\* numbers::flat_manifold_id, which it never sets
AskedNumbers == ManifoldNumbers \cup { flat_manifold_id }

\* every number but number has the manifold it had
OthersUnchanged(number) ==
  \A n \in AskedNumbers \ { number } : get_manifold(n)' = get_manifold(n)

\* what a step does to the manifold of each number
ManifoldStep ==
  /\ \A m \in ManifoldNumbers, M \in Manifolds :
       set_manifold(m, M) => (get_manifold(m)' = M /\ OthersUnchanged(m))
  /\ \A m \in ManifoldNumbers :
       reset_manifold(m) => (get_manifold(m)' = "FlatManifold" /\ OthersUnchanged(m))
  /\ reset_all_manifolds
       => (\A n \in AskedNumbers : get_manifold(n)' = "FlatManifold")
  /\ \A n \in AskedNumbers :
       (get_manifold(n)' \notin { get_manifold(n), "FlatManifold" })
         => (\E M \in Manifolds : set_manifold(n, M))

\* C25: get_manifold(m) yields M after set_manifold(m, M) and the flat
\* manifold after reset_manifold(m) or reset_all_manifolds(); set_manifold
\* and reset_manifold leave the manifolds of all other numbers unchanged; the
\* manifold of a number becomes a non-flat one only by set_manifold for that
\* number, so a number never set, numbers::flat_manifold_id among them,
\* has the flat manifold.
C25_ManifoldLookup ==
  /\ [](get_manifold(flat_manifold_id) = "FlatManifold")
  /\ [][ManifoldStep]_vars

\* number 0 has been given a manifold object and number 1 has been reset:
\* the lookups differ
C25_Witness ==
  /\ get_manifold(0) = "PolarManifold"
  /\ get_manifold(1) = "FlatManifold"
  /\ get_manifold(flat_manifold_id) = "FlatManifold"
  /\ has_children # {}

\* what a step does to the vertex array: it does not shrink, and a vertex
\* used before and after the step has its position; execute_coarsening
\* changes no entry of the array, it only marks vertices unused
VertexStep ==
  /\ Len(vertices') >= Len(vertices)
  /\ \A i \in 1 .. Len(vertices) :
       (vertices_used[i] /\ vertices_used'[i]) => vertices'[i] = vertices[i]
  /\ pc = "execute_coarsening" =>
       /\ vertices' = vertices
       /\ \A i \in 1 .. Len(vertices) : vertices_used'[i] => vertices_used[i]

\* C26: n_vertices() never decreases in refinement and coarsening;
\* coarsening marks vertices unused and neither removes nor renumbers them; a
\* vertex that stays in use keeps its index and position; and
\* n_used_vertices() <= n_vertices() in every state.
C26_VertexIndicesStable ==
  /\ [](Len(vertices_used) = Len(vertices) /\ n_used_vertices <= Len(vertices))
  /\ [][VertexStep]_vars

\* a call that has coarsened has returned: the vertex array is as long as
\* at the call and has unused slots
C26_Witness ==
  /\ ExecuteReturned
  /\ mesh_at_call.has_children \ has_children # {}
  /\ Len(vertices) = Len(mesh_at_call.vertices)
  /\ n_used_vertices < Len(vertices)
  /\ n_used_vertices < Cardinality({ i \in 1 .. Len(vertices) : mesh_at_call.vertices_used[i] })

\* Triangulation::n_cells(), n_active_cells(), n_cells(level),
\* n_active_cells(level): the cached counts
n_cells == number_cache.n_cells
n_active_cells == number_cache.n_active_cells
n_cells_on(level) == number_cache.n_cells_level[level + 1]
n_active_cells_on(level) == number_cache.n_active_cells_level[level + 1]

\* the sum of the entries of a sequence of numbers
RECURSIVE SumOf(_)
SumOf(counts) ==
  IF counts = << >> THEN 0 ELSE counts[1] + SumOf(Tail(counts))

CreateReturned ==
  pc = "returned" /\ caller = "create_triangulation" /\ exception = "none"

\* C27: when create_triangulation or execute_coarsening_and_refinement has
\* returned, n_cells() is the number of used cells, n_active_cells() the
\* number of used cells without children, n_cells(l) and n_active_cells(l)
\* are these numbers for the cells of level l, and the per-level counts
\* sum to the totals.
C27_CachedCounts ==
  (CreateReturned \/ ExecuteReturned) =>
    /\ n_cells = Cardinality({ c \in AllCells : is_used(c) })
    /\ n_active_cells = Cardinality({ c \in AllCells : is_used(c) /\ ~ is_refined(c) })
    /\ \A l \in 0 .. number_cache.n_levels - 1 :
         /\ n_cells_on(l) = Cardinality({ c \in LevelCells(l) : is_used(c) })
         /\ n_active_cells_on(l)
              = Cardinality({ c \in LevelCells(l) : is_used(c) /\ ~ is_refined(c) })
    /\ \A c \in used : Level(c) < number_cache.n_levels
    /\ SumOf(number_cache.n_cells_level) = n_cells
    /\ SumOf(number_cache.n_active_cells_level) = n_active_cells

\* a call that coarsened and refined has returned on a mesh with cells on
\* three levels, refined and active ones on level 1
C27_Witness ==
  /\ ExecuteReturned
  /\ mesh_at_call.used \ used # {}
  /\ used \ mesh_at_call.used # {}
  /\ number_cache.n_levels = 3
  /\ n_active_cells_on(1) > 0
  /\ n_active_cells_on(1) < n_cells_on(1)
  /\ n_active_cells < n_cells

\* Triangulation::n_levels()
n_levels == number_cache.n_levels

\* the levels n_levels() reported when the call was made
levels_at_call == mesh_at_call.number_cache.n_levels

\* C28: between the calls n_levels() is the level of the most refined active
\* cell plus one: 1 on a coarse mesh; one more after a call that refined a
\* cell of the finest level; less after a call whose coarsening left no
\* cell on the highest level, while the storage keeps that level.
C28_NumberOfLevels ==
  /\ (Quiescent /\ used # {}) =>
       /\ n_levels = 1 + Max({ Level(c) : c \in ActiveCells })
       /\ has_children = {} => n_levels = 1
       /\ levels_size >= n_levels
  /\ ExecuteReturned =>
       /\ (\E c \in has_children \ mesh_at_call.has_children : Level(c) = levels_at_call - 1)
            => n_levels = levels_at_call + 1
       /\ ({ c \in used : Level(c) = levels_at_call - 1 } = {})
            => (n_levels < levels_at_call /\ levels_size >= levels_at_call)
       /\ levels_size >= mesh_at_call.levels_size

\* the call has coarsened all cells of the highest level away: n_levels()
\* is smaller than before and than the number of levels in the storage
C28_Witness ==
  /\ ExecuteReturned
  /\ n_levels < levels_at_call
  /\ n_levels < levels_size
  /\ n_levels = 1 + Max({ Level(c) : c \in ActiveCells })

\* what an access does: it is rejected iff the other kind is in use, and
\* then changes nothing; else the cell has the value and the kind is in use
AccessStep(wanted, other, c, p) ==
  IF user_data.type = other
  THEN exception' = "ExcPointerIndexClash" /\ user_data' = user_data
  ELSE /\ exception' = "none"
       /\ user_data'.type = wanted
       /\ user_data'.data[c] = p
       /\ \A d \in DOMAIN user_data.data \ { c } : user_data'.data[d] = user_data.data[d]

UserDataStep ==
  /\ \A c \in AllCells, p \in UserValues :
       /\ set_user_pointer(c, p) => AccessStep("data_pointer", "data_index", c, p)
       /\ set_user_index(c, p) => AccessStep("data_index", "data_pointer", c, p)
  /\ clear_user_data => (user_data'.type = "data_unknown" /\ user_data'.data = << >>)
  /\ user_data'.type # user_data.type =>
       (user_data.type = "data_unknown" \/ user_data'.type = "data_unknown")

\* C29: once user pointers are in use an access to user indices is rejected,
\* and the other way round, until clear_user_data() is called: the kind in
\* use changes only from or to none; clear_user_data() resets the user data
\* of all cells and then an access of either kind is accepted.
C29_UserDataKinds ==
  /\ [](user_data.type = "data_unknown" => user_data.data = << >>)
  /\ [][UserDataStep]_vars

\* user indices are in use on two cells and an access to a user pointer has
\* been rejected
C29_Witness ==
  /\ pc = "returned"
  /\ caller = "set_user_pointer"
  /\ exception = "ExcPointerIndexClash"
  /\ user_data.type = "data_index"
  /\ Cardinality(DOMAIN user_data.data) = 2

\* the mesh m has coarsest_level_1: no cell of level 0 is active
is_coarsest_level_1(m) ==
  \A c \in m.used : Level(c) = 0 => c \in m.has_children

\* C30: with coarsest_level_1, when execute_coarsening_and_refinement is
\* called on a mesh without active cells on level 0 the mesh has none when
\* the call returns: every cell of level 1 is still there, whatever coarsen
\* flags the active ones carried.
C30_CoarsestLevel1Kept ==
  (ExecuteReturned /\ HasBit(smooth_grid, coarsest_level_1)
     /\ is_coarsest_level_1(mesh_at_call))
    => /\ is_coarsest_level_1(Mesh)
       /\ \A c \in mesh_at_call.used : Level(c) = 1 => is_used(c)

\* with coarsest_level_1 the four children of a coarse cell, all active,
\* carried the coarsen flag at the call and are still there
C30_Witness ==
  /\ ExecuteReturned
  /\ HasBit(smooth_grid, coarsest_level_1)
  /\ is_coarsest_level_1(mesh_at_call)
  /\ \E p \in mesh_at_call.has_children :
       /\ Level(p) = 0
       /\ Children(p) \subseteq flags_at_call.c
       /\ Children(p) \cap mesh_at_call.has_children = {}
       /\ Children(p) \subseteq ActiveCells

\* C31: with limit_level_difference_at_vertices in the smoothing setting, two
\* active cells that have a vertex in common differ by at most one level
\* whenever no call is running, in particular after every
\* execute_coarsening_and_refinement; a vertex that joins active cells two or
\* more levels apart is found only without that flag.
C31_VertexNeighboursWithinOneLevel ==
  (Quiescent /\ HasBit(smooth_grid, limit_level_difference_at_vertices)) =>
    \A a \in ActiveCells, b \in ActiveCells :
      share_vertex(a, b) => LevelDifference(a, b) <= 1

\* without the flag a call has returned and left a vertex that joins two active
\* cells whose levels differ by two
C31_Witness ==
  /\ ExecuteReturned
  /\ exception = "none"
  /\ ~ HasBit(smooth_grid, limit_level_difference_at_vertices)
  /\ \E a \in ActiveCells, b \in ActiveCells :
       /\ share_vertex(a, b)
       /\ ~ share_face(a, b)
       /\ LevelDifference(a, b) >= 2
       /\ parent(a) \in flags_at_call.r

\* the flags of the present state with the refine flag of the active cell c added
FlagsWith(c) == [ r |-> refine_flag \cup {c}, c |-> coarsen_flag ]

\* no active cell flagged for refinement has an unflagged active face neighbor
\* one level coarser
Regular(fl) ==
  \A c \in ActiveCells : c \in fl.r =>
    \A f \in InnerFaces(c) :
      LET n == neighbor(c, f)
      IN (active(n) /\ Level(n) < Level(c)) => n \in fl.r

\* C32: one backward sweep of the regularization is enough.  On every mesh
\* that is reached, and for the flags of the state with the refine flag of any
\* one active cell added, the sweep from the finest cells to the coarsest ends
\* in a fixed point: every flagged cell has its coarser face neighbors
\* flagged, every flag the sweep added lies on a cell one level coarser than
\* a flagged face neighbor, and a second sweep changes nothing.
C32_OneBackwardSweep ==
  \A c \in ActiveCells :
    LET cells == SelectSeq(CellOrder, is_active)
        once == regularize_sweep(cells, FlagsWith(c))
    IN /\ Regular(once)
       /\ \A n \in once.r \ FlagsWith(c).r :
            \E f \in InnerFaces(n) : \E d \in child_cell_on_face(n, f) :
              Across(d, f) \in once.r /\ active(Across(d, f))
       /\ regularize_sweep(cells, once) = once

\* the flag of a cell of level 2 induces a flag on a neighbor of level 1, and
\* this one a flag on a cell of level 0 that is no neighbor of the first
C32_Witness ==
  \E c \in ActiveCells :
    LET cells == SelectSeq(CellOrder, is_active)
        once == regularize_sweep(cells, [ r |-> {c}, c |-> {} ])
    IN /\ Level(c) = 2
       /\ refine_flag = {}
       /\ \E n \in once.r, m \in once.r :
            /\ Level(n) = 1 /\ Level(m) = 0
            /\ share_face(c, n) /\ share_face(n, m) /\ ~ share_face(c, m)

(* ---------------------- history of a triangulation --------------------- *)
\* save_refine_flags(v), save_coarsen_flags(v): one bit for each active cell,
\* in the order of the active cell iterators, set if the cell is in S
save_flags(S) ==
  LET cells == SelectSeq(CellOrder, is_active)
  IN [ i \in 1 .. Len(cells) |-> cells[i] \in S ]

save_refine_flags == save_flags(refine_flag)
save_coarsen_flags == save_flags(coarsen_flag)

\* the bits are read last bit first
flagged_by_backward(v) ==
  LET cells == SelectSeq(CellOrder, is_active)
  IN { cells[Len(v) + 1 - i] : i \in { j \in 1 .. Len(v) : v[j] } }

\* the active cells whose bit is set in v
flagged_by(v) ==
  LET cells == SelectSeq(CellOrder, is_active)
  IN { cells[i] : i \in { j \in 1 .. Len(v) : v[j] } }

\* the vectors a program loads: refine flags for up to MaxLoadedFlags cells,
\* coarsen flags for no cell or for all children of one cell
RefineVectors ==
  { save_flags(S) : S \in { T \in SUBSET { c \in ActiveCells : Level(c) < MaxLevel } :
                                Cardinality(T) <= MaxLoadedFlags } }
CoarsenVectors ==
  { save_flags(S) : S \in { {} } \cup { Children(q) : q \in { p \in has_children :
                                           \A ch \in Children(p) : active(ch) } } }

\* load_refine_flags(v): the refine flag of each active cell is set or
\* cleared as its bit says
load_refine_flags(v) ==
  /\ UserTurn
  /\ Len(v) = Cardinality(ActiveCells)
  /\ cycles < MaxCycles
  /\ refine_flag' = flagged_by(v)
  /\ UNCHANGED << smooth_grid, LifeVars, exception, distorted_children, new_points, noted, coarsen_flag, pc,
                  times_left, cycles, signal_log, triggered, phase_log, CallVars, MeshVars >>

\* load_coarsen_flags(v)
load_coarsen_flags(v) ==
  /\ UserTurn
  /\ Len(v) = Cardinality(ActiveCells)
  /\ cycles < MaxCycles
  /\ coarsen_flag' = flagged_by(v)
  /\ UNCHANGED << smooth_grid, LifeVars, exception, distorted_children, new_points, noted, refine_flag, pc,
                  times_left, cycles, signal_log, triggered, phase_log, CallVars, MeshVars >>

\* the first active cell of the highest level that has one
begin_active_on_finest_level(u, hc, level) ==
  LET wanted(c) == c \in u /\ c \notin hc /\ Level(c) >= level
                   /\ \A d \in u \ hc : Level(d) <= Level(c)
      cells == SelectSeq(CellOrder, wanted)
  IN IF cells = << >> THEN NoCell ELSE cells[1]

\* begin_active(level) on the mesh of the used cells u with the refined
\* cells hc: the first active cell on the level, or on the next level that
\* has an active cell; past the end if there is none
begin_active(u, hc, level) ==
  LET wanted(c) == c \in u /\ c \notin hc /\ Level(c) >= level
      cells == SelectSeq(CellOrder, wanted)
  IN IF cells = << >> THEN NoCell ELSE cells[1]

\* tria.begin_active()->set_refine_flag()
set_refine_flag_at_begin_active ==
  LET cell == begin_active(used, has_children, 0)
  IN /\ UserTurn
     /\ cell # NoCell
     /\ Level(cell) < MaxLevel
     /\ cycles < MaxCycles
     /\ refine_flag' = refine_flag \cup { cell }
     /\ UNCHANGED << smooth_grid, LifeVars, exception, distorted_children, new_points, noted,
                     coarsen_flag, pc, times_left, cycles, signal_log, triggered, phase_log,
                     CallVars, MeshVars >>

HistorySmoothingSettings ==
  { none, limit_level_difference_at_vertices, eliminate_refined_boundary_islands }

HistoryInit ==
  /\ smooth_grid \in HistorySmoothingSettings
  /\ check_for_distorted_cells = FALSE
  /\ Constructed

HistoryNext ==
  \/ hyper_cube(FALSE)
  \/ refine_global(1)
  \/ refine_global_cycle
  \/ \E v \in RefineVectors : load_refine_flags(v)
  \/ \E v \in CoarsenVectors : load_coarsen_flags(v)
  \/ set_refine_flag_at_begin_active
  \/ execute_coarsening_and_refinement
  \/ prepare_loop
  \/ pre_refinement
  \/ execute_coarsening
  \/ execute_refinement
  \/ update_number_cache
  \/ post_refinement
  \/ return_to_caller

HistorySpec == HistoryInit /\ [][HistoryNext]_vars

\* cells that carry the refine and the coarsen flag
BothFlags(fl) == fl.r \cap fl.c

\* after fix_coarsen_flags a cell that carried both flags has the refine flag
\* only, and no cell of its sibling group has a coarsen flag
RefinementWinsInFix ==
  LET fl == fix_coarsen_flags_of(SelectSeq(CellOrder, is_active), Flags)
  IN \A c \in BothFlags(Flags) :
       /\ c \in fl.r
       /\ c \notin fl.c
       /\ Level(c) > 0 => Children(parent(c)) \cap fl.c = {}

\* the call that has returned refined the cells that carried both flags and
\* did not coarsen their sibling groups
RefinementWinsInExecute ==
  \A c \in BothFlags(flags_at_call) :
    /\ c \in has_children
    /\ Level(c) > 0 => Children(parent(c)) \subseteq used

RefinedNeighbors(c) ==
  { f \in InnerFaces(c) : neighbor(c, f) \in has_children \/ neighbor(c, f) \in refine_flag }
UnrefinedNeighbors(c) == InnerFaces(c) \ RefinedNeighbors(c)

FacesRefinedByNeighbor(c) ==
  { f \in InnerFaces(c) :
      LET n == neighbor(c, f)
      IN \/ n \in has_children
            /\ ~ \A ch \in Children(n) : active(ch) /\ ch \in coarsen_flag
         \/ active(n) /\ n \in refine_flag /\ Level(n) = Level(c) }

RefinedNow == has_children \ mesh_at_call.has_children

\* the cells refined by the running call that were split together with the
\* object of the new point e: the cell itself, or the cells a line bounds
SplitWith(e) ==
  IF e.object[1] = "quad" THEN { e.object[2] }
  ELSE { c \in RefinedNow : e.object[2] \in CellLines(c) }

C36_LinesBeforeCells ==
  \A i \in 1 .. Len(new_points) :
    LET e == new_points[i]
    IN /\ e.surrounding_points \subseteq e.existing
       /\ e.point \notin e.existing
       /\ \A j \in 1 .. (i - 1) : new_points[j].point \in e.existing
       /\ e.object[1] = "quad" =>
            /\ \A f \in Faces : face_center(e.object[2], f) \in e.surrounding_points
            /\ CellVertices(e.object[2]) \subseteq e.surrounding_points
            /\ \A j \in (i + 1) .. Len(new_points) : new_points[j].object[1] = "quad"
       /\ e.object[1] = "line" =>
            e.surrounding_points = { e.object[2][1], e.object[2][2] }

\* a call has created the midpoint of a line and then the center of a cell
\* that has this line, the midpoint of another of its lines being older
C36_Witness ==
  /\ pc = "returned"
  /\ \E i \in 1 .. Len(new_points), j \in 1 .. Len(new_points) :
       LET e == new_points[j]
       IN /\ i < j
          /\ new_points[i].object[1] = "line"
          /\ e.object[1] = "quad"
          /\ new_points[i].object[2] \in CellLines(e.object[2])
          /\ \E f \in Faces :
               face_center(e.object[2], f) \in
                 UsedPositions(mesh_at_call.vertices, mesh_at_call.vertices_used)

\* C37: the active cells are run through level by level: begin_active() is
\* an active cell of the lowest level that has one, the first of that level.
\* With the setting none, on the unit square refined once or further, a call
\* of execute_coarsening_and_refinement with the flag on begin_active() alone
\* refines this cell of level 1 and no other: 3 active cells more, 7 after
\* 4 and 10 after 7, and 3 levels.
C37_BeginActive ==
  /\ ActiveCells # {} =>
       LET first == begin_active(used, has_children, 0)
       IN /\ active(first)
          /\ \A c \in ActiveCells \ { first } :
               Level(first) < Level(c) \/ (Level(first) = Level(c) /\ CellBefore(first, c))
  /\ LET first == begin_active(mesh_at_call.used, mesh_at_call.has_children, 0)
     IN ( /\ ExecuteReturned /\ exception = "none"
          /\ smooth_grid = none
          /\ flags_at_call = [ r |-> { first }, c |-> {} ]
          /\ Level(first) = 1 )
        => /\ RefinedNow = { first }
           /\ used = mesh_at_call.used \cup Children(first)
           /\ n_active_cells = mesh_at_call.number_cache.n_active_cells + 3
           /\ mesh_at_call.number_cache.n_active_cells = 4 => n_active_cells = 7
           /\ mesh_at_call.number_cache.n_active_cells = 7 => n_active_cells = 10
           /\ n_levels = 3

\* the unit square was refined once, and twice more at begin_active():
\* 10 active cells on 3 levels
C37_Witness ==
  /\ ExecuteReturned /\ exception = "none"
  /\ smooth_grid = none
  /\ mesh_at_call.has_children = { << 0, 0, 0 >>, << 1, 0, 0 >> }
  /\ flags_at_call = [ r |-> { << 1, 1, 0 >> }, c |-> {} ]
  /\ begin_active(mesh_at_call.used, mesh_at_call.has_children, 0) = << 1, 1, 0 >>
  /\ n_active_cells = 10
  /\ n_levels = 3

\* the flags prepare_coarsening_and_refinement ends with when its loop
\* starts (first) or goes on with the flags fl; n bounds the passes
RECURSIVE prepare_result(_, _, _)
prepare_result(fl, first, n) ==
  LET next == prepare_pass(IF first THEN clear_level_1_coarsen_flags(fl) ELSE fl)
  IN IF next = fl \/ n = 0 THEN next ELSE prepare_result(next, FALSE, n - 1)

\* the mesh without the smoothing setting
MeshOnly ==
  [ used |-> used, has_children |-> has_children, material_id |-> material_id,
    manifold_id |-> manifold_id, levels_size |-> levels_size, vertices |-> vertices,
    vertices_used |-> vertices_used, number_cache |-> number_cache,
    boundary_id |-> boundary_id ]

\* the mesh that execute_coarsening and execute_refinement make of the
\* present mesh with the flags fl
Executed(fl) ==
  LET D == { p \in has_children : cell_will_be_coarsened(p, fl) }
      m == coarsen_cells(MeshOnly, D)
  IN refine_cells(m, { c \in fl.r : c \in m.used /\ c \notin m.has_children })

\* the mesh the running call of execute_coarsening_and_refinement ends with,
\* computed from the mesh, the flags and the smoothing setting of the
\* present state and from nothing else
Outcome ==
  CASE pc = "prepare" ->
         Executed(prepare_result(Flags, passes = 0, Cardinality(AllCells)))
    [] pc \in { "pre_refinement", "execute_coarsening" } -> Executed(Flags)
    [] pc = "execute_refinement" -> refine_cells(MeshOnly, cells_to_refine)
    [] pc = "number_cache" ->
         [ MeshOnly EXCEPT !.number_cache = compute_number_cache(used, has_children) ]
    [] OTHER -> MeshOnly

\* the mesh m with its number cache computed again
Recounted(m) ==
  [ m EXCEPT !.number_cache = compute_number_cache(m.used, m.has_children) ]

\* while the running call has not changed the mesh, the mesh it will end
\* with is the one computed from the mesh and the flags it was entered with
ReplayState ==
  (caller = "execute" /\ pc \in { "prepare", "pre_refinement", "execute_coarsening" })
    => /\ Mesh = mesh_at_call
       /\ Outcome = Executed(prepare_result(flags_at_call, TRUE, Cardinality(AllCells)))

\* the flags after load_*_flags are those of the vector, and each step that
\* changes the mesh leaves the mesh the call will end with as it was
ReplayStep ==
  /\ (caller = "execute" /\ pc = "execute_coarsening")
       => LET m == coarsen_cells(MeshOnly,
                     { p \in has_children : cell_will_be_coarsened(p, Flags) })
          IN /\ Recounted(MeshOnly') = Recounted(m)
             /\ vertices' = vertices
             /\ cells_to_refine' =
                  { c \in refine_flag : c \in m.used /\ c \notin m.has_children }
  /\ (caller = "execute" /\ pc = "execute_refinement")
       => Recounted(MeshOnly') = Outcome
  /\ (caller = "execute" /\ pc \in { "number_cache", "post_refinement" })
       => MeshOnly' = Outcome
  /\ \A v \in RefineVectors :
       load_refine_flags(v) =>
         /\ save_refine_flags' = v
         /\ \A c \in ActiveCells :
              c \in refine_flag' <=>
                v[Cardinality({ d \in ActiveCells : CellBefore(d, c) }) + 1]
  /\ \A v \in CoarsenVectors :
       load_coarsen_flags(v) =>
         /\ save_coarsen_flags' = v
         /\ \A c \in ActiveCells :
              c \in coarsen_flag' <=>
                v[Cardinality({ d \in ActiveCells : CellBefore(d, c) }) + 1]

note_and_execute ==
  /\ UserTurn
  /\ noted = << >>
  /\ noted' = [ flags |-> Flags,
                used |-> used,
                active_cells |-> ActiveCells,
                n_active_cells |-> n_active_cells,
                n_levels |-> n_levels,
                n_used_vertices |-> n_used_vertices,
                n_vertices |-> Len(vertices),
                cycles |-> cycles ]
  /\ begin_execute(Flags)
  /\ signal_log' = << >>
  /\ triggered' = << >>
  /\ UNCHANGED << smooth_grid, LifeVars, exception, distorted_children, new_points,
                  refine_flag, coarsen_flag, times, times_left, MeshVars >>

RoundTripInit ==
  /\ smooth_grid = none
  /\ check_for_distorted_cells = FALSE
  /\ Constructed

RoundTripNext ==
  \/ hyper_cube(FALSE)
  \/ create_triangulation(Repetitions)
  \/ \E v \in RefineVectors : load_refine_flags(v)
  \/ \E v \in CoarsenVectors : load_coarsen_flags(v)
  \/ execute_coarsening_and_refinement
  \/ note_and_execute
  \/ prepare_loop
  \/ pre_refinement
  \/ execute_coarsening
  \/ execute_refinement
  \/ update_number_cache
  \/ post_refinement
  \/ return_to_caller

RoundTripSpec == RoundTripInit /\ [][RoundTripNext]_vars

\* with the setting none the program kept the counts and called execute with
\* the refine flag on c alone; the next call, made with the coarsen flag on
\* the children of c alone, has returned
RoundTripDone(c) ==
  /\ ExecuteReturned /\ exception = "none"
  /\ smooth_grid = none
  /\ noted # << >>
  /\ noted.flags = [ r |-> {c}, c |-> {} ]
  /\ cycles = noted.cycles + 2
  /\ flags_at_call = [ r |-> {}, c |-> Children(c) ]

\* the active cells and the counts are those the program kept, and the
\* vertex array is as long as the refinement left it
Restored ==
  /\ ActiveCells = noted.active_cells
  /\ n_active_cells = noted.n_active_cells
  /\ n_levels = noted.n_levels
  /\ n_used_vertices = noted.n_used_vertices
  /\ Len(vertices) = Len(mesh_at_call.vertices)
  /\ Len(vertices) >= noted.n_vertices

\* C39 as stated: whenever one active cell c was flagged and refined and
\* then all children of c were flagged and coarsened, the active cells and
\* the counts are restored.
C39_Original == \A c \in AllCells : RoundTripDone(c) => Restored

\* C39: with the setting none, when the call made with the refine flag on
\* one active cell c refined c and no other cell, and the next call is made
\* with the coarsen flag on all children of c, then the set of active cells,
\* n_active_cells(), n_levels() and n_used_vertices() are again what they
\* were before the refinement, while n_vertices() stays what the refinement
\* made it.
C39_RoundTrip ==
  \A c \in AllCells :
    (RoundTripDone(c) /\ mesh_at_call.used = noted.used \cup Children(c)) => Restored

\* a cell of level 1 was refined alone and its children were coarsened: the
\* third level and five used vertices are gone, their slots are not
C39_Witness ==
  \E c \in AllCells :
    /\ RoundTripDone(c)
    /\ mesh_at_call.used = noted.used \cup Children(c)
    /\ Level(c) = 1
    /\ n_levels = 2 /\ mesh_at_call.number_cache.n_levels = 3
    /\ Len(vertices) = noted.n_vertices + 5
    /\ n_used_vertices = noted.n_used_vertices

(* ---------------------- parent and child links ------------------------- *)
\* the used cells that report c as their parent
ReportedChildren(c) == { d \in used : Level(d) > 0 /\ parent(d) = c }

\* C40: in every state each used cell either has no children index and no
\* used cell reports it as parent, or has a children index and exactly
\* 2^dim children, all used, one level deeper, and each reporting the cell as
\* its parent; every used cell above level 0 is a child of exactly one used
\* cell; the active cells are exactly the used cells without children.
C40_ParentChildLinks ==
  /\ \A c \in used :
       IF c \in has_children
       THEN /\ Cardinality(Children(c)) = 2 ^ dim
            /\ Children(c) \subseteq used
            /\ \A i \in 0 .. (children_per_cell - 1) :
                 /\ Level(child(c, i)) = Level(c) + 1
                 /\ parent(child(c, i)) = c
            /\ ReportedChildren(c) = Children(c)
       ELSE /\ ReportedChildren(c) = {}
            /\ Children(c) \cap used = {}
  /\ has_children \subseteq used
  /\ \A d \in used :
       Level(d) > 0 => Cardinality({ c \in used : d \in Children(c) }) = 1
  /\ { c \in used : is_active(c) } = { c \in used : ReportedChildren(c) = {} }
  /\ Quiescent => number_cache.n_active_cells
                    = Cardinality({ c \in used : ReportedChildren(c) = {} })

\* cells of three levels are used, and a cell of level 1 that has children
\* has a sibling that has none
C40_Witness ==
  \E c \in has_children :
    /\ Level(c) = 1
    /\ parent(c) \in has_children
    /\ \A i \in 0 .. (children_per_cell - 1) : active(child(c, i))
    /\ \E d \in Children(parent(c)) : active(d)

====
